---- MODULE Spec2Model ----
(***************************************************************************)
(* LeaderForge: the leaderboard consistency engine.                        *)
(*                                                                         *)
(* The store (tables users, leaderboard, game_sessions), the Redis cache   *)
(* in front of it and the three request handlers of                        *)
(* backend/app/api/leaderboard.py, run by a pool of workers.  One step of  *)
(* the model is one statement sent to the database or one command sent to  *)
(* the cache; the steps of different requests interleave freely.           *)
(*                                                                         *)
(* Not modelled: username, game_mode, last_updated and the response        *)
(* timestamp (no handler reads them back), logging.                        *)
(***************************************************************************)
EXTENDS Integers, Sequences, FiniteSets, TLC

\* ------------------------------------------------------------- bounds
MaxRequests == 2     \* requests started in one behaviour
NumUsers == 3        \* rows of table users: ids 1..NumUsers

Users == 1..NumUsers
UserIds == 1..(NumUsers + 1)     \* NumUsers + 1 is an id with no users row
Limits == {1, 2}                 \* limits asked of getTop: a cut and all rows
MaxScore == 1000000              \* ScoreSubmission.score: le=1000000
Scores == {0, MaxScore}          \* scores the schema lets through: the two ends
                                 \* of the range, score 0 and a positive score
ScoreInputs == Scores \cup {-1, MaxScore + 1}   \* scores a client can send
UserInputs == {0} \cup UserIds                 \* user ids a client can send
Workers == {1, 2}                \* two requests run at the same time
Clients == {1, 2}                \* client IPs seen by the rate limiter

VARIABLES
    leaderboard,    \* table leaderboard: user_id -> row, committed state
    game_sessions,  \* table game_sessions: the committed rows, in insert order
    cache,          \* Redis: key -> value, the keys that are present
    lease,          \* Redis: key -> the TTL setex gave it and its age, in seconds
    reqs,           \* worker -> the request it runs
    started,        \* number of requests started so far
    accepted,       \* history: the submissions whose commit returned
    inv_missed,     \* history: a committed submission ended without a complete
                    \* invalidation step (cancelled, or a cache command failed)
    requests,       \* RateLimitMiddleware.requests: client IP -> its timestamps
    last_cleanup,   \* RateLimitMiddleware.last_cleanup
    now,            \* the clock read by time.time()
    pending,        \* admitted requests whose handler (call_next) has not returned
    last_response,  \* what the middleware answered last: client, status, headers
    verdict,        \* what _check_rate_limit returned last, for whom and when
    admitted,       \* history: client -> the times of its accepted requests
                    \* that lie in the window (now - 60, now]
    uncleaned       \* the map of a second RateLimitMiddleware that is given the
                    \* same requests and never runs _cleanup_old_entries

\* the state of the leaderboard engine, and that of the rate limiter
svars == <<leaderboard, game_sessions, cache, lease, reqs, started, accepted, inv_missed>>

lvars == <<requests, last_cleanup, now, pending, last_response, verdict, admitted,
          uncleaned>>

vars == <<leaderboard, game_sessions, cache, lease, reqs, started, accepted, inv_missed,
          requests, last_cleanup, now, pending, last_response, verdict, admitted,
          uncleaned>>

\* ------------------------------------------------------------- data
Row(t, s) == [total_score |-> t, session_count |-> s]

Session(u, s) == [user_id |-> u, score |-> s]

RankKey(u) == <<"rank", u>>
ScoreKey(u) == <<"score", u>>
TopKey(n) == <<"top", n>>

NoData == [none |-> TRUE]

Idle ==
    [kind |-> "idle", pc |-> "idle", user_id |-> 0, score |-> 0, limit |-> 0,
     txn |-> "none", row |-> Row(0, 0), keys |-> {}, had |-> {},
     inv_ok |-> FALSE, hit |-> FALSE, status |-> 0, data |-> NoData]

Min(a, b) == IF a <= b THEN a ELSE b

Restrict(f, S) == [x \in S |-> f[x]]

\* ------------------------------------------------------------- store
HasRow(lb, u) == u \in DOMAIN lb

Total(lb, u) == IF HasRow(lb, u) THEN lb[u].total_score ELSE 0

Count(lb, u) == IF HasRow(lb, u) THEN lb[u].session_count ELSE 0

RECURSIVE SumScores(_, _)
\* SUM(gs.score) of the game_sessions rows of user u
SumScores(seq, u) ==
    IF seq = <<>> THEN 0
    ELSE (IF Head(seq).user_id = u THEN Head(seq).score ELSE 0) + SumScores(Tail(seq), u)

RECURSIVE CountSessions(_, _)
\* COUNT(*) of the game_sessions rows of user u
CountSessions(seq, u) ==
    IF seq = <<>> THEN 0
    ELSE (IF Head(seq).user_id = u THEN 1 ELSE 0) + CountSessions(Tail(seq), u)

\* populate_leaderboard: the leaderboard table aggregated from game_sessions,
\* one row per user that has a session
PopulateLeaderboard(gs) ==
    [u \in {gs[i].user_id : i \in DOMAIN gs} |->
        Row(SumScores(gs, u), CountSessions(gs, u))]

\* The databases the service starts on: a fresh one, and one that the seeding
\* script has populated with a session each of players 1, 2 and 3: two players
\* tied at the top and one below them.
Seeds == {<<>>, <<Session(1, MaxScore), Session(2, MaxScore), Session(3, 0)>>}

\* mutant: DO UPDATE SET total_score = :score, the old total is overwritten
UpsertRowOverwrite(lb, u, s) ==
    IF HasRow(lb, u) THEN Row(s, lb[u].session_count + 1) ELSE Row(s, 1)

\* mutant: a submission of score 0 leaves an existing row as it is
UpsertRowSkipZero(lb, u, s) ==
    IF HasRow(lb, u)
    THEN (IF s = 0 THEN lb[u] ELSE Row(lb[u].total_score + s, lb[u].session_count + 1))
    ELSE Row(s, 1)

\* INSERT ... ON CONFLICT (user_id) DO UPDATE ... RETURNING, on the committed row
UpsertRow(lb, u, s) ==
    IF HasRow(lb, u)
    THEN Row(lb[u].total_score + s, lb[u].session_count + 1)
    ELSE Row(s, 1)

\* mutant: a transaction that is waiting for the row lock counts as holding it
HoldsRowLockWaiting(v, u) ==
    /\ reqs[v].kind = "submit"
    /\ reqs[v].pc \in {"s_upsert", "s_commit"}
    /\ reqs[v].user_id = u

\* The row lock of the upsert: a transaction that has upserted user u and has not
\* ended holds it, and another upsert of u waits for it.
HoldsRowLock(v, u) ==
    /\ reqs[v].kind = "submit"
    /\ reqs[v].pc = "s_commit"
    /\ reqs[v].user_id = u

\* mutant: the total is read and written back without a lock on the row
UpsertNoLock(w) == TRUE

UpsertEnabled(w) ==
    \A v \in Workers \ {w} : ~HoldsRowLock(v, reqs[w].user_id)

\* mutant: the game_sessions row is not part of the transaction and is lost
CommitStoreNoAudit(w) ==
    [lb |-> [u \in DOMAIN leaderboard \cup {reqs[w].user_id} |->
                IF u = reqs[w].user_id THEN reqs[w].row ELSE leaderboard[u]],
     gs |-> game_sessions]

\* mutant: the upsert has no conflict target and updates every row
CommitStoreUpdatesAll(w) ==
    [lb |-> [u \in DOMAIN leaderboard \cup {reqs[w].user_id} |->
                IF u = reqs[w].user_id THEN reqs[w].row
                ELSE Row(leaderboard[u].total_score + reqs[w].score,
                         leaderboard[u].session_count + 1)],
     gs |-> Append(game_sessions, Session(reqs[w].user_id, reqs[w].score))]

\* COMMIT of the transaction of w: the game_sessions row and the upserted
\* leaderboard row become visible together.
CommitStore(w) ==
    [lb |-> [u \in DOMAIN leaderboard \cup {reqs[w].user_id} |->
                IF u = reqs[w].user_id THEN reqs[w].row ELSE leaderboard[u]],
     gs |-> Append(game_sessions, Session(reqs[w].user_id, reqs[w].score))]

\* mutant: the game_sessions insert was flushed outside the transaction, so a
\* rollback after the upsert leaves it behind
RollbackKeepsSession(w) ==
    [lb |-> leaderboard,
     gs |-> IF reqs[w].pc = "s_commit"
            THEN Append(game_sessions, Session(reqs[w].user_id, reqs[w].score))
            ELSE game_sessions]

\* mutant: a rollback after the commit takes the committed audit row back
RollbackUndoesCommit(w) ==
    [lb |-> leaderboard,
     gs |-> IF reqs[w].txn = "committed" /\ game_sessions # <<>>
            THEN SubSeq(game_sessions, 1, Len(game_sessions) - 1)
            ELSE game_sessions]

\* mutant: a failed request takes the committed row of its player away
RollbackDropsRow(w) ==
    [lb |-> Restrict(leaderboard, DOMAIN leaderboard \ {reqs[w].user_id}),
     gs |-> game_sessions]

\* db.rollback(), and db.close() of a session that did not commit: the
\* uncommitted writes of w are dropped, the committed tables stay as they are.
Rollback(w) == [lb |-> leaderboard, gs |-> game_sessions]

\* ------------------------------------------------------------- ranking
Perms(S) ==
    {f \in [1..Cardinality(S) -> S] : \A i, j \in DOMAIN f : f[i] = f[j] => i = j}

\* ORDER BY total_score DESC: every order of the rows the database may produce
Orderings(lb) ==
    {f \in Perms(DOMAIN lb) :
        \A i, j \in DOMAIN f : i < j => lb[f[i]].total_score >= lb[f[j]].total_score}

\* mutant: ROW_NUMBER() in place of RANK(): the row's own position
RowNumberOver(lb, u) ==
    LET ord == CHOOSE f \in Orderings(lb) : TRUE
    IN  CHOOSE i \in DOMAIN ord : ord[i] = u

\* mutant: DENSE_RANK() in place of RANK(): one more than the number of distinct
\* greater totals
DenseRankOver(lb, u) ==
    1 + Cardinality({lb[q].total_score : q \in {x \in DOMAIN lb :
                        lb[x].total_score > lb[u].total_score}})

\* RANK() OVER (ORDER BY total_score DESC): the row number of the first peer
RankOver(lb, u) ==
    LET ord == CHOOSE f \in Orderings(lb) : TRUE
        first == CHOOSE i \in DOMAIN ord :
                    /\ lb[ord[i]].total_score = lb[u].total_score
                    /\ \A j \in DOMAIN ord :
                          lb[ord[j]].total_score = lb[u].total_score => i <= j
    IN  first

\* round(n / d, 0) as Python rounds: to nearest, halves to even
RoundDiv(n, d) ==
    LET q == n \div d
        r == n % d
    IN  IF 2 * r < d THEN q
        ELSE IF 2 * r > d THEN q + 1
        ELSE IF q % 2 = 0 THEN q ELSE q + 1

\* mutant: the percentile is cut to 2 decimals, not rounded
PercentileFloor(total_count, rank) ==
    IF total_count > 0 THEN ((total_count - rank) * 10000) \div total_count ELSE 0

\* round((total_count - rank) / total_count * 100, 2), in hundredths
Percentile(total_count, rank) ==
    IF total_count > 0 THEN RoundDiv((total_count - rank) * 10000, total_count) ELSE 0

\* response_data of get_player_rank
RankData(lb, u) ==
    LET rank == RankOver(lb, u)
    IN  [user_id |-> u,
         rank |-> rank,
         total_score |-> lb[u].total_score,
         session_count |-> lb[u].session_count,
         percentile |-> Percentile(Cardinality(DOMAIN lb), rank)]

\* mutant: enumerate(top_players) without the + 1
TopEntriesFromZero(lb, ord, limit) ==
    [i \in 1..Min(limit, Len(ord)) |->
        [rank |-> i - 1, user_id |-> ord[i],
         total_score |-> lb[ord[i]].total_score,
         session_count |-> lb[ord[i]].session_count]]

\* entries of get_top_players: the first limit rows of an ordering, numbered
TopEntries(lb, ord, limit) ==
    [i \in 1..Min(limit, Len(ord)) |->
        [rank |-> i, user_id |-> ord[i],
         total_score |-> lb[ord[i]].total_score,
         session_count |-> lb[ord[i]].session_count]]

\* ------------------------------------------------------------- cache
\* Every cache operation takes up: whether the backend answers this command
\* (redis_client is set and the command raises nothing).

\* mutant: an unreachable backend is not noticed, the entry is returned
CacheGetIgnoresOutage(k, up) == IF k \in DOMAIN cache THEN cache[k] ELSE NoData

\* CacheManager.get: None when the backend does not answer or has no such key
CacheGet(k, up) == IF up /\ k \in DOMAIN cache THEN cache[k] ELSE NoData

\* mutant: the value is written over every entry, not under its own key only
CacheSetClobbers(k, v, up) ==
    IF up THEN [x \in DOMAIN cache \cup {k} |-> v] ELSE cache

\* CacheManager.set
CacheSet(k, v, up) ==
    IF up
    THEN [x \in DOMAIN cache \cup {k} |-> IF x = k THEN v ELSE cache[x]]
    ELSE cache

\* CacheManager.delete
CacheDelete(ks, up) ==
    IF up THEN Restrict(cache, DOMAIN cache \ ks) ELSE cache

\* settings.cache_ttl_top and settings.cache_ttl_rank, in seconds
CacheTtlTop == 30
CacheTtlRank == 60

\* the clock of the cache backend is read in steps of the shorter TTL
Grid == CacheTtlTop

\* mutant: setex is given the TTL of rank entries whatever the key
LeaseSetLong(k, ttl, up) ==
    IF up
    THEN [x \in DOMAIN lease \cup {k} |->
            IF x = k THEN [ttl |-> CacheTtlRank, age |-> 0] ELSE lease[x]]
    ELSE lease

\* redis_client.setex(key, ttl, serialized): the entry starts a new life of ttl
LeaseSet(k, ttl, up) ==
    IF up
    THEN [x \in DOMAIN lease \cup {k} |->
            IF x = k THEN [ttl |-> ttl, age |-> 0] ELSE lease[x]]
    ELSE lease

\* redis_client.delete(*keys)
LeaseDelete(ks, up) ==
    IF up THEN Restrict(lease, DOMAIN lease \ ks) ELSE lease

\* the entry is in the last Grid seconds of its life
Expiring(k) == lease[k].age + Grid >= lease[k].ttl

\* mutant: only the listing of one limit is invalidated, not the pattern
TopKeysOneLimit(c) == {k \in DOMAIN c : k = TopKey(1)}

\* redis_client.keys("leaderboard:top:*")
TopKeysMatching(c) == {k \in DOMAIN c : k[1] = "top"}

\* ------------------------------------------------------------- requests
SetReq(w, r) == reqs' = [reqs EXCEPT ![w] = r]

Respond(w, code, d) ==
    SetReq(w, [reqs[w] EXCEPT !.pc = "done", !.status = code, !.data = d])

\* the error response of a handler whose session ends without a commit of its
\* open transaction
RespondError(w, code) ==
    SetReq(w, [reqs[w] EXCEPT
        !.pc = "done", !.status = code, !.data = NoData,
        !.txn = IF reqs[w].txn = "active" THEN "rolledback" ELSE reqs[w].txn])

StoreUnchanged == UNCHANGED <<leaderboard, game_sessions, accepted>>

\* w is between its commit and the end of its invalidation step
Invalidating(w) == reqs[w].pc \in {"s_inv_user", "s_inv_keys", "s_inv_del"}

CanStart(w) == reqs[w].kind = "idle" /\ started < MaxRequests

\* RateLimitMiddleware.__init__: no timestamps recorded, nothing in flight
NoResponse == [client |-> 0, status |-> 0, remaining |-> 0]

NoVerdict == [client |-> 0, current_time |-> 0, allowed |-> FALSE]

LimiterInit ==
    /\ requests = <<>>
    /\ last_cleanup = 0
    /\ now = 0
    /\ pending = {}
    /\ last_response = NoResponse
    /\ verdict = NoVerdict
    /\ admitted = [c \in Clients |-> <<>>]
    /\ uncleaned = <<>>

Init ==
    /\ \E seed \in Seeds :
          /\ game_sessions = seed
          /\ accepted = seed
          /\ leaderboard = PopulateLeaderboard(seed)
    /\ cache = <<>>
    /\ lease = <<>>
    /\ reqs = [w \in Workers |-> Idle]
    /\ started = 0
    /\ inv_missed = FALSE
    /\ LimiterInit

\* ---- submit_score
\* mutant: the range of score is open at both ends
ValidSubmissionOpen(u, s) == u > 0 /\ s > 0 /\ s < MaxScore

\* ScoreSubmission: user_id gt=0, score ge=0 and le=1000000
ValidSubmission(u, s) == u > 0 /\ s >= 0 /\ s <= MaxScore

\* the body fails the validation of ScoreSubmission: the framework answers 422
\* and submit_score is not called
SubmitInvalid(w, u, s) ==
    /\ CanStart(w)
    /\ ~ValidSubmission(u, s)
    /\ started' = started + 1
    /\ SetReq(w, [Idle EXCEPT !.kind = "submit", !.user_id = u, !.score = s,
                              !.pc = "done", !.status = 422])
    /\ UNCHANGED <<cache, lease>>
    /\ StoreUnchanged
    /\ UNCHANGED inv_missed
    /\ UNCHANGED lvars

\* mutant: the users row is not looked up
SubmitUserNoCheck(w, u, s) ==
    /\ CanStart(w)
    /\ ValidSubmission(u, s)
    /\ started' = started + 1
    /\ SetReq(w, [Idle EXCEPT !.kind = "submit", !.user_id = u, !.score = s,
                              !.pc = "s_upsert", !.txn = "active"])
    /\ UNCHANGED <<cache, lease>>
    /\ StoreUnchanged
    /\ UNCHANGED inv_missed
    /\ UNCHANGED lvars

\* the request arrives; db.query(User)...first(): 404 when the user has no row
SubmitUser(w, u, s) ==
    /\ CanStart(w)
    /\ ValidSubmission(u, s)
    /\ started' = started + 1
    /\ LET r == [Idle EXCEPT !.kind = "submit", !.user_id = u, !.score = s]
       IN  IF u \in Users
           THEN SetReq(w, [r EXCEPT !.pc = "s_upsert", !.txn = "active"])
           ELSE SetReq(w, [r EXCEPT !.pc = "done", !.status = 404])
    /\ UNCHANGED <<cache, lease>>
    /\ StoreUnchanged
    /\ UNCHANGED inv_missed
    /\ UNCHANGED lvars

\* mutant: the caches are invalidated before the commit
SubmitUpsertThenInvalidate(w) ==
    /\ reqs[w].pc = "s_upsert"
    /\ UpsertEnabled(w)
    /\ SetReq(w, [reqs[w] EXCEPT
            !.pc = "s_inv_user",
            !.row = UpsertRow(leaderboard, reqs[w].user_id, reqs[w].score)])
    /\ UNCHANGED <<cache, lease, started>>
    /\ StoreUnchanged
    /\ UNCHANGED inv_missed
    /\ UNCHANGED lvars

\* db.add(game_session) and db.execute(upsert_query): the insert is flushed and
\* the upsert runs, both inside the transaction of w
SubmitUpsert(w) ==
    /\ reqs[w].pc = "s_upsert"
    /\ UpsertEnabled(w)
    /\ SetReq(w, [reqs[w] EXCEPT
            !.pc = "s_commit",
            !.row = UpsertRow(leaderboard, reqs[w].user_id, reqs[w].score)])
    /\ UNCHANGED <<cache, lease, started>>
    /\ StoreUnchanged
    /\ UNCHANGED inv_missed
    /\ UNCHANGED lvars

\* fetchone() gave no row: HTTPException(500), re-raised without db.rollback();
\* the session is closed by the dependency, which drops the transaction
SubmitNoRow(w) ==
    /\ reqs[w].pc = "s_upsert"
    /\ UpsertEnabled(w)
    /\ leaderboard' = Rollback(w).lb
    /\ game_sessions' = Rollback(w).gs
    /\ RespondError(w, 500)
    /\ UNCHANGED <<cache, lease, started, accepted>>
    /\ UNCHANGED inv_missed
    /\ UNCHANGED lvars

\* db.commit()
SubmitCommit(w) ==
    /\ reqs[w].pc = "s_commit"
    /\ leaderboard' = CommitStore(w).lb
    /\ game_sessions' = CommitStore(w).gs
    /\ accepted' = Append(accepted, Session(reqs[w].user_id, reqs[w].score))
    /\ SetReq(w, [reqs[w] EXCEPT
            !.pc = "s_inv_user", !.txn = "committed", !.inv_ok = TRUE,
            !.had = TopKeysMatching(cache)])
    /\ UNCHANGED <<cache, lease, started>>
    /\ UNCHANGED inv_missed
    /\ UNCHANGED lvars

\* cache.invalidate_user_cache(user_id)
InvalidateUser(w, up) ==
    /\ reqs[w].pc = "s_inv_user"
    /\ cache' = CacheDelete({RankKey(reqs[w].user_id), ScoreKey(reqs[w].user_id)}, up)
    /\ lease' = LeaseDelete({RankKey(reqs[w].user_id), ScoreKey(reqs[w].user_id)}, up)
    /\ SetReq(w, [reqs[w] EXCEPT !.pc = "s_inv_keys",
                                 !.inv_ok = reqs[w].inv_ok /\ up])
    /\ UNCHANGED started
    /\ StoreUnchanged
    /\ UNCHANGED inv_missed
    /\ UNCHANGED lvars

\* cache.invalidate_top_cache(), first half: keys = redis_client.keys(pattern);
\* nothing is deleted when no key matches or the command raises
InvalidateTopKeys(w, up) ==
    /\ reqs[w].pc = "s_inv_keys"
    /\ LET keys == IF up THEN TopKeysMatching(cache) ELSE {}
       IN  SetReq(w, [reqs[w] EXCEPT
                !.pc = IF keys = {} THEN "s_rank" ELSE "s_inv_del",
                !.keys = keys,
                !.inv_ok = reqs[w].inv_ok /\ up])
    /\ UNCHANGED <<cache, lease, started>>
    /\ StoreUnchanged
    /\ inv_missed' = (inv_missed \/ (reqs'[w].pc = "s_rank" /\ ~reqs'[w].inv_ok))
    /\ UNCHANGED lvars

\* cache.invalidate_top_cache(), second half: redis_client.delete(*keys)
InvalidateTopDelete(w, up) ==
    /\ reqs[w].pc = "s_inv_del"
    /\ cache' = CacheDelete(reqs[w].keys, up)
    /\ lease' = LeaseDelete(reqs[w].keys, up)
    /\ SetReq(w, [reqs[w] EXCEPT !.pc = "s_rank", !.keys = {},
                                 !.inv_ok = reqs[w].inv_ok /\ up])
    /\ UNCHANGED started
    /\ StoreUnchanged
    /\ inv_missed' = (inv_missed \/ ~reqs'[w].inv_ok)
    /\ UNCHANGED lvars

\* mutant: the rank of the response is taken from the player's cached rank entry
\* when there is one
SubmitRankFromCache(w) ==
    /\ reqs[w].pc = "s_rank"
    /\ Respond(w, 200,
            [new_total_score |-> reqs[w].row.total_score,
             current_rank |->
                 IF RankKey(reqs[w].user_id) \in DOMAIN cache
                 THEN cache[RankKey(reqs[w].user_id)].rank
                 ELSE RankOver(leaderboard, reqs[w].user_id)])
    /\ UNCHANGED <<cache, lease, started>>
    /\ StoreUnchanged
    /\ UNCHANGED inv_missed
    /\ UNCHANGED lvars

\* the rank query of submit_score and the ScoreResponse
SubmitRank(w) ==
    /\ reqs[w].pc = "s_rank"
    /\ Respond(w, 200,
            [new_total_score |-> reqs[w].row.total_score,
             current_rank |-> RankOver(leaderboard, reqs[w].user_id)])
    /\ UNCHANGED <<cache, lease, started>>
    /\ StoreUnchanged
    /\ UNCHANGED inv_missed
    /\ UNCHANGED lvars

\* a statement of submit_score raises: except Exception: db.rollback(), 500
SubmitDbError(w) ==
    /\ reqs[w].pc \in {"s_upsert", "s_commit", "s_rank"}
    /\ leaderboard' = Rollback(w).lb
    /\ game_sessions' = Rollback(w).gs
    /\ RespondError(w, 500)
    /\ UNCHANGED <<cache, lease, started, accepted>>
    /\ UNCHANGED inv_missed
    /\ UNCHANGED lvars

\* ---- get_player_rank
\* the request arrives; cached_data = cache.get(cache_key)
RankCacheGet(w, u, up) ==
    /\ CanStart(w)
    /\ started' = started + 1
    /\ LET r == [Idle EXCEPT !.kind = "rank", !.user_id = u]
           cached == CacheGet(RankKey(u), up)
       IN  IF cached # NoData
           THEN SetReq(w, [r EXCEPT !.pc = "done", !.status = 200, !.data = cached,
                                    !.hit = TRUE])
           ELSE SetReq(w, [r EXCEPT !.pc = "r_query"])
    /\ UNCHANGED <<cache, lease>>
    /\ StoreUnchanged
    /\ UNCHANGED inv_missed
    /\ UNCHANGED lvars

\* mutant: the not-found outcome is stored in the cache like a result
RankQueryStoresNotFound(w) ==
    /\ reqs[w].pc = "r_query"
    /\ IF HasRow(leaderboard, reqs[w].user_id)
       THEN /\ SetReq(w, [reqs[w] EXCEPT
                    !.pc = "r_set", !.data = RankData(leaderboard, reqs[w].user_id)])
            /\ UNCHANGED <<cache, lease>>
       ELSE /\ Respond(w, 404, NoData)
            /\ cache' = CacheSet(RankKey(reqs[w].user_id), NoData, TRUE)
            /\ lease' = LeaseSet(RankKey(reqs[w].user_id), CacheTtlRank, TRUE)
    /\ UNCHANGED started
    /\ StoreUnchanged
    /\ UNCHANGED inv_missed
    /\ UNCHANGED lvars

\* the rank query: 404 when the player has no leaderboard row
RankQuery(w) ==
    /\ reqs[w].pc = "r_query"
    /\ IF HasRow(leaderboard, reqs[w].user_id)
       THEN SetReq(w, [reqs[w] EXCEPT
                !.pc = "r_set", !.data = RankData(leaderboard, reqs[w].user_id)])
       ELSE Respond(w, 404, NoData)
    /\ UNCHANGED <<cache, lease, started>>
    /\ StoreUnchanged
    /\ UNCHANGED inv_missed
    /\ UNCHANGED lvars

\* the rank query raises: except Exception: 500
RankDbError(w) ==
    /\ reqs[w].pc = "r_query"
    /\ Respond(w, 500, NoData)
    /\ UNCHANGED <<cache, lease, started>>
    /\ StoreUnchanged
    /\ UNCHANGED inv_missed
    /\ UNCHANGED lvars

\* cache.set(cache_key, response_data, settings.cache_ttl_rank)
RankCacheSet(w, up) ==
    /\ reqs[w].pc = "r_set"
    /\ cache' = CacheSet(RankKey(reqs[w].user_id), reqs[w].data, up)
    /\ lease' = LeaseSet(RankKey(reqs[w].user_id), CacheTtlRank, up)
    /\ Respond(w, 200, reqs[w].data)
    /\ UNCHANGED started
    /\ StoreUnchanged
    /\ UNCHANGED inv_missed
    /\ UNCHANGED lvars

\* ---- get_top_players
\* the request arrives; cached_data = cache.get(cache_key)
TopCacheGet(w, n, up) ==
    /\ CanStart(w)
    /\ started' = started + 1
    /\ LET r == [Idle EXCEPT !.kind = "top", !.limit = n]
           cached == CacheGet(TopKey(n), up)
       IN  IF cached # NoData
           THEN SetReq(w, [r EXCEPT !.pc = "done", !.status = 200, !.data = cached,
                                    !.hit = TRUE])
           ELSE SetReq(w, [r EXCEPT !.pc = "t_query"])
    /\ UNCHANGED <<cache, lease>>
    /\ StoreUnchanged
    /\ UNCHANGED inv_missed
    /\ UNCHANGED lvars

\* db.query(Leaderboard).order_by(total_score.desc()).limit(limit).all()
TopQuery(w) ==
    /\ reqs[w].pc = "t_query"
    /\ \E ord \in Orderings(leaderboard) :
          SetReq(w, [reqs[w] EXCEPT
                !.pc = "t_count",
                !.data = [top_players |-> TopEntries(leaderboard, ord, reqs[w].limit),
                          total_players |-> 0]])
    /\ UNCHANGED <<cache, lease, started>>
    /\ StoreUnchanged
    /\ UNCHANGED inv_missed
    /\ UNCHANGED lvars

\* db.query(Leaderboard).count()
TopCount(w) ==
    /\ reqs[w].pc = "t_count"
    /\ SetReq(w, [reqs[w] EXCEPT
            !.pc = "t_set",
            !.data = [reqs[w].data EXCEPT
                        !.total_players = Cardinality(DOMAIN leaderboard)]])
    /\ UNCHANGED <<cache, lease, started>>
    /\ StoreUnchanged
    /\ UNCHANGED inv_missed
    /\ UNCHANGED lvars

\* a query of get_top_players raises: except Exception: 500
TopDbError(w) ==
    /\ reqs[w].pc \in {"t_query", "t_count"}
    /\ Respond(w, 500, NoData)
    /\ UNCHANGED <<cache, lease, started>>
    /\ StoreUnchanged
    /\ UNCHANGED inv_missed
    /\ UNCHANGED lvars

\* cache.set(cache_key, response_data, settings.cache_ttl_top)
TopCacheSet(w, up) ==
    /\ reqs[w].pc = "t_set"
    /\ cache' = CacheSet(TopKey(reqs[w].limit), reqs[w].data, up)
    /\ lease' = LeaseSet(TopKey(reqs[w].limit), CacheTtlTop, up)
    /\ Respond(w, 200, reqs[w].data)
    /\ UNCHANGED started
    /\ StoreUnchanged
    /\ UNCHANGED inv_missed
    /\ UNCHANGED lvars

\* ---- the environment
\* the caller goes away while its request runs: the handler is cancelled, the
\* session is closed, no response is delivered and the worker is free again
Cancel(w) ==
    /\ reqs[w].kind # "idle"
    /\ reqs[w].pc # "done"
    /\ leaderboard' = Rollback(w).lb
    /\ game_sessions' = Rollback(w).gs
    /\ SetReq(w, Idle)
    /\ UNCHANGED <<cache, lease, started, accepted>>
    /\ inv_missed' = (inv_missed \/ Invalidating(w))
    /\ UNCHANGED lvars

\* the response has been sent; the worker takes the next request
Finish(w) ==
    /\ reqs[w].pc = "done"
    /\ SetReq(w, Idle)
    /\ UNCHANGED <<cache, lease, started>>
    /\ StoreUnchanged
    /\ UNCHANGED inv_missed
    /\ UNCHANGED lvars

\* mutant: entries are stored without a TTL and never expire
ExpireNever(k) ==
    /\ k \in DOMAIN cache
    /\ UNCHANGED vars

\* the TTL of an entry runs out: at some moment of the last Grid seconds of its
\* life, the entries being stored at any moment between two readings of the clock
Expire(k) ==
    /\ k \in DOMAIN cache
    /\ Expiring(k)
    /\ cache' = Restrict(cache, DOMAIN cache \ {k})
    /\ lease' = Restrict(lease, DOMAIN lease \ {k})
    /\ UNCHANGED <<reqs, started>>
    /\ StoreUnchanged
    /\ UNCHANGED inv_missed
    /\ UNCHANGED lvars

\* Grid seconds pass: every entry is older, and none outlives its TTL
Elapse ==
    /\ \A k \in DOMAIN cache : ~Expiring(k)
    /\ lease' = [k \in DOMAIN lease |-> [lease[k] EXCEPT !.age = @ + Grid]]
    /\ UNCHANGED <<cache, reqs, started>>
    /\ StoreUnchanged
    /\ UNCHANGED inv_missed
    /\ UNCHANGED lvars

Next ==
    \/ \E w \in Workers, u \in UserInputs, s \in ScoreInputs : SubmitInvalid(w, u, s)
    \/ \E w \in Workers, u \in UserInputs, s \in ScoreInputs : SubmitUser(w, u, s)
    \/ \E w \in Workers : SubmitUpsert(w)
    \/ \E w \in Workers : SubmitNoRow(w)
    \/ \E w \in Workers : SubmitCommit(w)
    \/ \E w \in Workers, up \in BOOLEAN : InvalidateUser(w, up)
    \/ \E w \in Workers, up \in BOOLEAN : InvalidateTopKeys(w, up)
    \/ \E w \in Workers, up \in BOOLEAN : InvalidateTopDelete(w, up)
    \/ \E w \in Workers : SubmitRank(w)
    \/ \E w \in Workers : SubmitDbError(w)
    \/ \E w \in Workers, u \in UserIds, up \in BOOLEAN : RankCacheGet(w, u, up)
    \/ \E w \in Workers : RankQuery(w)
    \/ \E w \in Workers : RankDbError(w)
    \/ \E w \in Workers, up \in BOOLEAN : RankCacheSet(w, up)
    \/ \E w \in Workers, n \in Limits, up \in BOOLEAN : TopCacheGet(w, n, up)
    \/ \E w \in Workers : TopQuery(w)
    \/ \E w \in Workers : TopCount(w)
    \/ \E w \in Workers : TopDbError(w)
    \/ \E w \in Workers, up \in BOOLEAN : TopCacheSet(w, up)
    \/ \E w \in Workers : Cancel(w)
    \/ \E w \in Workers : Finish(w)
    \/ \E k \in DOMAIN cache : Expire(k)
    \/ Elapse

Spec == Init /\ [][Next]_vars

\* the keys the handlers write: cache.set is given leaderboard:rank:{user_id} and
\* leaderboard:top:{limit} only
CacheKeys == {RankKey(u) : u \in Users} \cup {TopKey(n) : n \in Limits}

\* every entry is written by setex with a TTL: time passes and the cache backend
\* removes the entry when the TTL has run, whatever the handlers do
LiveSpec == Spec /\ WF_vars(Elapse) /\ \A k \in CacheKeys : WF_vars(Expire(k))

\* the next statement of the handler that runs at worker w returns: a database
\* statement gives its result, a cache command answers or fails
Proceed(w) ==
    \/ SubmitUpsert(w)
    \/ SubmitCommit(w)
    \/ \E up \in BOOLEAN : InvalidateUser(w, up)
    \/ \E up \in BOOLEAN : InvalidateTopKeys(w, up)
    \/ \E up \in BOOLEAN : InvalidateTopDelete(w, up)
    \/ SubmitRank(w)
    \/ RankQuery(w)
    \/ \E up \in BOOLEAN : RankCacheSet(w, up)
    \/ TopQuery(w)
    \/ TopCount(w)
    \/ \E up \in BOOLEAN : TopCacheSet(w, up)

\* every worker runs the statements of its handler one after the other, a cache
\* command returns within its socket timeout, and a transaction that holds a
\* row lock goes on to its commit: a statement that can return does. Errors of
\* the store and the departure of the caller are possible and not required.
FairSpec == Spec /\ \A w \in Workers : WF_vars(Proceed(w))

\* ------------------------------------------------------------- rate limiter
RequestsPerMinute == 3   \* requests_per_minute, scaled down
Window == 60             \* seconds a timestamp counts
CleanupInterval == 60    \* cleanup_interval
MaxWindows == 2          \* the clock runs from 0 to MaxWindows * Window

Advances == {30, 60}     \* seconds between two readings of the clock

Max(a, b) == IF a >= b THEN a ELSE b

\* self.requests[client_ip] of the defaultdict(list), without creating the entry
Timestamps(rq, c) == IF c \in DOMAIN rq THEN rq[c] ELSE <<>>

\* mutant: a timestamp exactly 60 s old is kept (ts >= one_minute_ago)
RecentInclusive(seq, current_time) ==
    SelectSeq(seq, LAMBDA ts : ts >= current_time - Window)

\* [ts for ts in seq if ts > current_time - 60]
Recent(seq, current_time) ==
    SelectSeq(seq, LAMBDA ts : ts > current_time - Window)

\* mutant: the windows are pruned but an empty window keeps its entry
CleanupKeepsEmpty(rq, current_time) ==
    [ip \in DOMAIN rq |-> Recent(rq[ip], current_time)]

\* _cleanup_old_entries
CleanupOldEntries(rq, current_time) ==
    LET live == {ip \in DOMAIN rq : Recent(rq[ip], current_time) # <<>>}
    IN  [ip \in live |-> Recent(rq[ip], current_time)]

\* dispatch: if current_time - self.last_cleanup > self.cleanup_interval
CleanupDue(current_time) == current_time - last_cleanup > CleanupInterval

\* mutant: a rejected request is recorded too
CheckRateLimitRecordsAll(rq, c, current_time) ==
    LET pruned == Recent(Timestamps(rq, c), current_time)
    IN  [allowed |-> Len(pruned) < RequestsPerMinute,
         requests |-> [ip \in DOMAIN rq \cup {c} |->
                          IF ip = c THEN Append(pruned, current_time) ELSE rq[ip]]]

\* mutant: timestamps exactly 60 s old still count (ts >= one_minute_ago)
CheckRateLimitClosedWindow(rq, c, current_time) ==
    LET pruned == SelectSeq(Timestamps(rq, c), LAMBDA ts : ts >= current_time - Window)
        allowed == Len(pruned) < RequestsPerMinute
    IN  [allowed |-> allowed,
         requests |-> [ip \in DOMAIN rq \cup {c} |->
                          IF ip = c
                          THEN (IF allowed THEN Append(pruned, current_time) ELSE pruned)
                          ELSE rq[ip]]]

\* mutant: the last request of the quota is rejected already
CheckRateLimitOneShort(rq, c, current_time) ==
    LET pruned == Recent(Timestamps(rq, c), current_time)
        allowed == Len(pruned) + 1 < RequestsPerMinute
    IN  [allowed |-> allowed,
         requests |-> [ip \in DOMAIN rq \cup {c} |->
                          IF ip = c
                          THEN (IF allowed THEN Append(pruned, current_time) ELSE pruned)
                          ELSE rq[ip]]]

\* mutant: a full window still lets one request through (len > limit rejects)
CheckRateLimitOneMore(rq, c, current_time) ==
    LET pruned == Recent(Timestamps(rq, c), current_time)
        allowed == Len(pruned) <= RequestsPerMinute
    IN  [allowed |-> allowed,
         requests |-> [ip \in DOMAIN rq \cup {c} |->
                          IF ip = c
                          THEN (IF allowed THEN Append(pruned, current_time) ELSE pruned)
                          ELSE rq[ip]]]

\* _check_rate_limit: the return value and self.requests after the call
CheckRateLimit(rq, c, current_time) ==
    LET pruned == Recent(Timestamps(rq, c), current_time)
        allowed == Len(pruned) < RequestsPerMinute
    IN  [allowed |-> allowed,
         requests |-> [ip \in DOMAIN rq \cup {c} |->
                          IF ip = c
                          THEN (IF allowed THEN Append(pruned, current_time) ELSE pruned)
                          ELSE rq[ip]]]

\* mutant: every recorded timestamp counts, the old ones too
GetRemainingCountsAll(rq, c, current_time) ==
    Max(0, RequestsPerMinute - Len(Timestamps(rq, c)))

\* _get_remaining_requests
GetRemainingRequests(rq, c, current_time) ==
    Max(0, RequestsPerMinute - Len(Recent(Timestamps(rq, c), current_time)))

\* mutant: the request is handed to call_next whatever the check returned
DispatchCallsNextAnyway(c) ==
    LET current_time == now
        cleaned == IF CleanupDue(current_time)
                   THEN CleanupOldEntries(requests, current_time) ELSE requests
        res == CheckRateLimit(cleaned, c, current_time)
    IN  /\ Cardinality(pending) < Cardinality(Workers)
        /\ last_cleanup' = IF CleanupDue(current_time) THEN current_time ELSE last_cleanup
        /\ requests' = res.requests
        /\ verdict' = [client |-> c, current_time |-> current_time,
                       allowed |-> res.allowed]
        /\ pending' = pending \cup {[client |-> c, current_time |-> current_time]}
        /\ UNCHANGED last_response
        /\ admitted' = IF res.allowed
                       THEN [admitted EXCEPT ![c] = Append(@, current_time)]
                       ELSE admitted
        /\ uncleaned' = CheckRateLimit(uncleaned, c, current_time).requests
        /\ UNCHANGED <<now, svars>>

\* dispatch, from the reading of the clock to the rate-limit check: the 429
\* response when the check fails, else the request goes on to call_next
Dispatch(c) ==
    LET current_time == now
        cleaned == IF CleanupDue(current_time)
                   THEN CleanupOldEntries(requests, current_time) ELSE requests
        res == CheckRateLimit(cleaned, c, current_time)
    IN  /\ Cardinality(pending) < Cardinality(Workers)
        /\ last_cleanup' = IF CleanupDue(current_time) THEN current_time ELSE last_cleanup
        /\ requests' = res.requests
        /\ verdict' = [client |-> c, current_time |-> current_time,
                       allowed |-> res.allowed]
        /\ IF res.allowed
           THEN /\ pending' = pending \cup {[client |-> c, current_time |-> current_time]}
                /\ UNCHANGED last_response
           ELSE /\ last_response' = [client |-> c, status |-> 429, remaining |-> 0]
                /\ UNCHANGED pending
        /\ admitted' = IF res.allowed
                       THEN [admitted EXCEPT ![c] = Append(@, current_time)]
                       ELSE admitted
        /\ uncleaned' = CheckRateLimit(uncleaned, c, current_time).requests
        /\ UNCHANGED <<now, svars>>

\* dispatch, after call_next returned: the rate-limit headers of the response
HandlerReturns(p) ==
    /\ p \in pending
    /\ pending' = pending \ {p}
    /\ last_response' =
          [client |-> p.client, status |-> 200,
           remaining |-> GetRemainingRequests(requests, p.client, p.current_time)]
    /\ UNCHANGED <<requests, last_cleanup, now, verdict, admitted, uncleaned, svars>>

\* time passes
Tick(d) ==
    /\ now + d <= MaxWindows * Window
    /\ now' = now + d
    /\ admitted' = [c \in DOMAIN admitted |->
                      SelectSeq(admitted[c], LAMBDA ts : ts > now' - Window)]
    /\ UNCHANGED <<requests, last_cleanup, pending, last_response, verdict, uncleaned,
                   svars>>

\* the middleware alone, in front of an engine at rest
RateInit ==
    /\ leaderboard = <<>>
    /\ game_sessions = <<>>
    /\ accepted = <<>>
    /\ cache = <<>>
    /\ lease = <<>>
    /\ reqs = [w \in Workers |-> Idle]
    /\ started = 0
    /\ inv_missed = FALSE
    /\ LimiterInit

RateNext ==
    \/ \E c \in Clients : Dispatch(c)
    \/ \E p \in pending : HandlerReturns(p)
    \/ \E d \in Advances : Tick(d)

RateSpec == RateInit /\ [][RateNext]_vars

\* ------------------------------------------------------------- properties
\* the step in which the transaction of w commits
Committing(w) == reqs[w].pc = "s_commit" /\ reqs'[w].pc = "s_inv_user"

\* the step in which w sends its success response to a submission
RespondingSubmit(w) ==
    reqs[w].pc = "s_rank" /\ reqs'[w].pc = "done" /\ reqs'[w].status = 200

C1_TotalIsSum ==
    \A u \in UserIds :
        /\ Total(leaderboard, u) = SumScores(accepted, u)
        /\ HasRow(leaderboard, u) <=> CountSessions(accepted, u) > 0

C1_CommitAdds ==
    \A w \in Workers :
        Committing(w) =>
            LET u == reqs[w].user_id
            IN  /\ leaderboard'[u].total_score = Total(leaderboard, u) + reqs[w].score
                /\ reqs'[w].row.total_score = leaderboard'[u].total_score

C1_ResponseTotal ==
    \A w \in Workers :
        RespondingSubmit(w) => reqs'[w].data.new_total_score = reqs[w].row.total_score

\* C1 (conservation): after every step, each player's stored total_score is the
\* sum of the scores of that player's accepted submissions and a row exists exactly
\* for the players with an accepted submission; the commit of a submission sets
\* the total to the previous total (0 when there was no row) plus its score, and
\* the success response carries that value as new_total_score.  (The initial
\* store satisfies the equation, and it speaks of leaderboard and accepted only,
\* so it is established for the steps that change one of them.)
C1_Conservation ==
    [][/\ UNCHANGED <<leaderboard, accepted>> \/ C1_TotalIsSum'
       /\ C1_CommitAdds
       /\ C1_ResponseTotal]_vars

\* a player with two accepted submissions of positive score, answered with the sum
C1_Witness ==
    \E w \in Workers :
        /\ reqs[w].kind = "submit" /\ reqs[w].pc = "done" /\ reqs[w].status = 200
        /\ reqs[w].data.new_total_score = 2 * MaxScore
        /\ CountSessions(accepted, reqs[w].user_id) = 2
        /\ leaderboard[reqs[w].user_id].total_score = 2 * MaxScore

\* C2 (no lost updates): a transaction that has run its upsert and not yet
\* committed holds a row computed from the row that is committed now (no other
\* commit for that player came between its upsert and its commit), and no two open
\* transactions have upserted the same player; so every commit adds to the total.
C2_NoLostUpdate ==
    /\ \A w \in Workers :
          reqs[w].pc = "s_commit" =>
              /\ reqs[w].row.total_score =
                    Total(leaderboard, reqs[w].user_id) + reqs[w].score
              /\ reqs[w].row.session_count = Count(leaderboard, reqs[w].user_id) + 1
    /\ \A w, v \in Workers :
          (w # v /\ reqs[w].pc = "s_commit" /\ reqs[v].pc = "s_commit")
              => reqs[w].user_id # reqs[v].user_id
    /\ \A u \in UserIds :
          /\ Total(leaderboard, u) = SumScores(accepted, u)
          /\ Count(leaderboard, u) = CountSessions(accepted, u)

\* two submissions for one player in flight together, both committed, both counted
C2_Witness ==
    \E w, v \in Workers :
        /\ w # v
        /\ reqs[w].kind = "submit" /\ reqs[v].kind = "submit"
        /\ reqs[w].user_id = reqs[v].user_id
        /\ reqs[w].score = MaxScore /\ reqs[v].score = MaxScore
        /\ reqs[w].txn = "committed" /\ reqs[v].txn = "committed"
        /\ reqs[w].pc # "done" /\ reqs[v].pc # "done"
        /\ leaderboard[reqs[w].user_id] = Row(2 * MaxScore, 2)

C3_CountIsAccepted ==
    \A u \in UserIds : Count(leaderboard, u) = CountSessions(accepted, u)

C3_Step ==
    /\ \A w \in Workers :
          Committing(w) =>
              LET u == reqs[w].user_id
              IN  /\ Count(leaderboard', u) = Count(leaderboard, u) + 1
                  /\ reqs[w].score = 0 => Total(leaderboard', u) = Total(leaderboard, u)
                  /\ \A q \in UserIds \ {u} :
                        Count(leaderboard', q) = Count(leaderboard, q)
    /\ (\A w \in Workers : ~Committing(w)) =>
          (UNCHANGED leaderboard
             \/ \A u \in UserIds : Count(leaderboard', u) = Count(leaderboard, u))

\* C3 (session count): session_count rises by exactly 1 in the step that commits
\* a submission of that player (1 at the first one; a score of 0 counts and leaves
\* total_score as it was) and is unchanged by every other step, so it equals the
\* number of the player's accepted submissions.
C3_SessionCount ==
    [][/\ UNCHANGED <<leaderboard, accepted>> \/ C3_CountIsAccepted'
       /\ C3_Step]_vars

\* a player with two accepted submissions, one of them of score 0
C3_Witness ==
    \E u \in Users :
        /\ HasRow(leaderboard, u)
        /\ leaderboard[u] = Row(MaxScore, 2)
        /\ \E i \in DOMAIN accepted : accepted[i] = Session(u, 0)

\* a committed submission of some worker has not finished its invalidation step
InvalidationPending == \E w \in Workers : Invalidating(w)

\* what get_top_players computes for limit n from the store as it is now
FreshTops(n) ==
    {[top_players |-> TopEntries(leaderboard, ord, n),
      total_players |-> Cardinality(DOMAIN leaderboard)] : ord \in Orderings(leaderboard)}

\* C4 (cache coherence under write), as claimed: once the invalidation step of
\* every accepted submission has run (with every cache command answered), whatever the next getRank or getTop call
\* can be served from the cache is what the store gives now: every rank entry
\* equals the rank data of its player and every top-N entry equals a listing
\* computed from the current store.
C4_CacheCoherent ==
    (~InvalidationPending /\ ~inv_missed) =>
        \A k \in DOMAIN cache :
            IF k[1] = "rank"
            THEN cache[k] = RankData(leaderboard, k[2])
            ELSE cache[k] \in FreshTops(k[2])

\* the step that ends the invalidation step of w with every cache command answered
InvalidationEnds(w) ==
    /\ reqs[w].pc \in {"s_inv_keys", "s_inv_del"}
    /\ reqs'[w].pc = "s_rank"
    /\ reqs'[w].inv_ok

C6_AuditMatches ==
    \A u \in UserIds :
        /\ Count(leaderboard, u) = CountSessions(game_sessions, u)
        /\ Total(leaderboard, u) = SumScores(game_sessions, u)

C6_AuditAppendOnly ==
    /\ Len(game_sessions') >= Len(game_sessions)
    /\ SubSeq(game_sessions', 1, Len(game_sessions)) = game_sessions
    /\ Len(game_sessions') <= Len(game_sessions) + 1

\* C6 (transactional coupling): after every step, for each player the number of
\* committed game_sessions rows equals session_count and their scores sum to
\* total_score; a step leaves the existing game_sessions rows as they are and adds
\* at most one.
C6_Coupling ==
    [][/\ UNCHANGED <<leaderboard, game_sessions>> \/ C6_AuditMatches'
       /\ C6_AuditAppendOnly]_vars

\* a submission has just committed on a store that held sessions already: its
\* audit row is the last one and its player's row counts it
C6_Witness ==
    \E w \in Workers :
        /\ reqs[w].pc = "s_inv_user"
        /\ Len(game_sessions) = 4
        /\ game_sessions[4] = Session(reqs[w].user_id, reqs[w].score)
        /\ reqs[w].user_id = 1
        /\ leaderboard[1] = Row(MaxScore + reqs[w].score, 2)

\* C7 (success after commit), as claimed: a submission whose transaction has
\* committed is answered with success and the updated total, whatever fails in the
\* cache invalidation or in the rank query.
C7_SuccessAfterCommit ==
    \A w \in Workers :
        (reqs[w].kind = "submit" /\ reqs[w].pc = "done" /\ reqs[w].txn = "committed")
            => /\ reqs[w].status = 200
               /\ reqs[w].data.new_total_score = reqs[w].row.total_score

C8_Responses ==
    \A w \in Workers :
        (reqs[w].kind = "submit" /\ reqs[w].pc = "done") =>
            /\ reqs[w].status = 200 =>
                  /\ reqs[w].txn = "committed"
                  /\ \E i \in DOMAIN game_sessions :
                        game_sessions[i] = Session(reqs[w].user_id, reqs[w].score)
                  /\ HasRow(leaderboard, reqs[w].user_id)
            /\ reqs[w].txn # "committed" => reqs[w].status \in {404, 422, 500}

C8_FailureLeavesStore ==
    \A w \in Workers :
        (/\ reqs[w].kind = "submit" \/ reqs'[w].kind = "submit"
         /\ reqs'[w] # reqs[w]
         /\ reqs'[w].txn # "committed")
            => /\ leaderboard' = leaderboard
               /\ game_sessions' = game_sessions

\* C8 (no half-committed submission): every step of a submission that does not
\* commit it (the failure of a statement before the commit, a cancellation, the
\* empty upsert result) leaves leaderboard and game_sessions as they were; a
\* submission that ended without a commit is answered 404 or 500 (422 when its
\* body was not valid and the handler never ran), and a success
\* response is sent only for a committed one, whose row and audit row are stored.
C8_AbortLeavesNothing == [][C8_Responses' /\ C8_FailureLeavesStore]_vars

\* a submission that failed after its upsert and before its commit: answered 500,
\* nothing stored
C8_Witness ==
    \E w \in Workers :
        /\ reqs[w].kind = "submit" /\ reqs[w].pc = "done"
        /\ reqs[w].status = 500 /\ reqs[w].txn = "rolledback"
        /\ reqs[w].row = Row(MaxScore, 1)
        /\ game_sessions = <<>> /\ leaderboard = <<>>

\* C9 (durable after commit): a step of a request whose transaction has
\* committed (cache invalidation, the rank query, its failure with the rollback of
\* the error handler, a cancellation, the response) changes neither leaderboard
\* nor game_sessions.
C9_DurableAfterCommit ==
    [][\A w \in Workers :
          (reqs[w].txn = "committed" /\ reqs'[w] # reqs[w])
              => /\ leaderboard' = leaderboard
                 /\ game_sessions' = game_sessions]_vars

\* a committed submission whose rank query failed: answered 500, still stored
C9_Witness ==
    \E w \in Workers :
        /\ reqs[w].kind = "submit" /\ reqs[w].pc = "done"
        /\ reqs[w].status = 500 /\ reqs[w].txn = "committed"
        /\ game_sessions = <<Session(reqs[w].user_id, reqs[w].score)>>
        /\ leaderboard[reqs[w].user_id] = reqs[w].row

\* the number of rows with a total strictly greater than that of u
GreaterCount(lb, u) ==
    Cardinality({q \in DOMAIN lb : lb[q].total_score > lb[u].total_score})

\* C10 (rank formula): the rank query of getRank(p), run on a cache miss, gives
\* rank = 1 + the number of rows with a strictly greater total in the table it
\* reads, the same rank for every row with p's total, and p's stored total_score
\* and session_count.
C10_RankFormula ==
    [][\A w \in Workers :
          (reqs[w].pc = "r_query" /\ reqs'[w].pc = "r_set") =>
              LET u == reqs[w].user_id
                  d == reqs'[w].data
              IN  /\ d.rank = 1 + GreaterCount(leaderboard, u)
                  /\ d.total_score = leaderboard[u].total_score
                  /\ d.session_count = leaderboard[u].session_count
                  /\ \A q \in DOMAIN leaderboard :
                        leaderboard[q].total_score = leaderboard[u].total_score
                            => RankOver(leaderboard, q) = d.rank]_vars

\* getRank computed rank 1 from the store for a player tied with another one
C10_Witness ==
    \E w \in Workers :
        /\ reqs[w].kind = "rank" /\ reqs[w].pc = "r_set"
        /\ reqs[w].data.rank = 1
        /\ \E q \in DOMAIN leaderboard :
              /\ q # reqs[w].user_id
              /\ leaderboard[q].total_score = reqs[w].data.total_score
              /\ HasRow(leaderboard, reqs[w].user_id)
              /\ leaderboard[reqs[w].user_id].total_score = reqs[w].data.total_score

\* the answers get_player_rank can give for u in this state: the cached entry when
\* the cache holds one and answers, the data computed from the store otherwise
RankAnswers(u) ==
    (IF RankKey(u) \in DOMAIN cache THEN {cache[RankKey(u)]} ELSE {})
        \cup {RankData(leaderboard, u)}

\* no two rows have the same total
NoTies(lb) ==
    \A p, q \in DOMAIN lb : p # q => lb[p].total_score # lb[q].total_score

\* C11 (rank ordering), as claimed: once every accepted submission has run its
\* invalidation, for players p and q with totalScore(p) > totalScore(q) every rank
\* getRank can answer for p (from the cache or from the store) is at most every
\* rank it can answer for q, and strictly less when no two players are tied.
C11_RankOrdering ==
    (~InvalidationPending /\ ~inv_missed) =>
        \A p, q \in DOMAIN leaderboard :
            leaderboard[p].total_score > leaderboard[q].total_score =>
                \A a \in RankAnswers(p), b \in RankAnswers(q) :
                    /\ a.rank <= b.rank
                    /\ NoTies(leaderboard) => a.rank < b.rank

\* the step in which w gets a rank from a rank query: get_player_rank on a cache
\* miss, or submit_score after its invalidation
RankComputed(w) ==
    \/ reqs[w].pc = "r_query" /\ reqs'[w].pc = "r_set"
    \/ RespondingSubmit(w)

\* the rank that step obtained
ComputedRank(w) ==
    IF reqs[w].pc = "r_query" THEN reqs'[w].data.rank ELSE reqs'[w].data.current_rank

\* the rows whose total is the next distinct total below that of u
NextLower(lb, u) ==
    {q \in DOMAIN lb :
        /\ lb[q].total_score < lb[u].total_score
        /\ \A x \in DOMAIN lb :
              lb[x].total_score < lb[u].total_score
                  => lb[x].total_score <= lb[q].total_score}

\* the rows tied with u, u included
Peers(lb, u) == {q \in DOMAIN lb : lb[q].total_score = lb[u].total_score}

\* C12 (dense rank), as claimed: the rank a rank query gives is one more than the
\* number of distinct greater totals, so the rows of the next lower distinct total
\* have the rank of the tied group plus one and ties leave no gaps.
C12_Original ==
    [][\A w \in Workers :
          RankComputed(w) =>
              LET u == reqs[w].user_id
              IN  /\ \A q \in Peers(leaderboard, u) :
                        RankOver(leaderboard, q) = ComputedRank(w)
                  /\ \A q \in NextLower(leaderboard, u) :
                        RankOver(leaderboard, q) = ComputedRank(w) + 1]_vars

\* C12 as amended: the rank is RANK(), standard competition ranking: tied rows
\* share a rank, and the rows of the next lower distinct total have the rank of
\* the tied group plus the number of rows in the group (1, 1, 3: a tie leaves a
\* gap).
C12_CompetitionRank ==
    [][\A w \in Workers :
          RankComputed(w) =>
              LET u == reqs[w].user_id
              IN  /\ \A q \in Peers(leaderboard, u) :
                        RankOver(leaderboard, q) = ComputedRank(w)
                  /\ \A q \in NextLower(leaderboard, u) :
                        RankOver(leaderboard, q) =
                            ComputedRank(w) + Cardinality(Peers(leaderboard, u))]_vars

\* getRank computed rank 1 for one of two tied players, and the player below the
\* two has rank 3
C12_Witness ==
    \E w \in Workers :
        /\ reqs[w].kind = "rank" /\ reqs[w].pc = "r_set"
        /\ HasRow(leaderboard, reqs[w].user_id)
        /\ reqs[w].data.rank = 1
        /\ Cardinality(Peers(leaderboard, reqs[w].user_id)) = 2
        /\ \E q \in NextLower(leaderboard, reqs[w].user_id) :
              RankOver(leaderboard, q) = 3

AbsDiff(a, b) == IF a >= b THEN a - b ELSE b - a

\* pct (in hundredths) is (n - rank) / n * 100 rounded to 2 decimals
IsPercentile(pct, n, rank) ==
    /\ n > 0
    /\ 2 * AbsDiff(pct * n, 10000 * (n - rank)) <= n

C13_Computed ==
    \A w \in Workers :
        (reqs[w].pc = "r_query" /\ reqs'[w].pc = "r_set") =>
            LET u == reqs[w].user_id
                d == reqs'[w].data
                n == Cardinality(DOMAIN leaderboard)
                others == DOMAIN leaderboard \ {u}
            IN  /\ d.rank = RankOver(leaderboard, u)
                /\ IsPercentile(d.percentile, n, d.rank)
                /\ (\A q \in others :
                        leaderboard[q].total_score > leaderboard[u].total_score)
                      => d.percentile = 0
                /\ (\A q \in others :
                        leaderboard[q].total_score < leaderboard[u].total_score)
                      => /\ IsPercentile(d.percentile, n, 1)
                         /\ n = 3 => d.percentile = 6667

\* the percentile of every getRank response and of every cached rank entry lies
\* in [0, 100]
C13_InRange ==
    /\ \A w \in Workers :
          (reqs[w].kind = "rank" /\ reqs[w].data # NoData) =>
              (reqs[w].data.percentile >= 0 /\ reqs[w].data.percentile <= 10000)
    /\ \A k \in DOMAIN cache :
          k[1] = "rank" => (cache[k].percentile >= 0 /\ cache[k].percentile <= 10000)

\* C13 (percentile): the percentile get_player_rank computes is
\* (totalPlayers - rank) / totalPlayers * 100 rounded to 2 decimals, with
\* totalPlayers (at least 1) and rank read by the one rank query; it lies in
\* [0, 100] in every response, computed or cached; a uniquely lowest player gets
\* 0.0 and the unique top player of N gets 100 * (N - 1) / N, 66.67 for N = 3.
C13_Percentile ==
    [][/\ C13_Computed
       /\ UNCHANGED <<reqs, cache>> \/ C13_InRange']_vars

\* getRank computed 66.67 for the unique top player of three
C13_Witness ==
    \E w \in Workers :
        /\ reqs[w].kind = "rank" /\ reqs[w].pc = "r_set"
        /\ Cardinality(DOMAIN leaderboard) = 3
        /\ \A q \in DOMAIN leaderboard \ {reqs[w].user_id} :
              leaderboard[q].total_score < reqs[w].data.total_score
        /\ reqs[w].data.rank = 1
        /\ reqs[w].data.percentile = 6667

\* C14 (top listing), as claimed: the response get_top_players assembles on a
\* cache miss has min(limit, number of rows) entries in non-increasing order of
\* total, entry i has rank i, no player is listed twice, every row left out has a
\* total not greater than the last one listed, and total_players is the number of
\* rows.
C14_TopListing ==
    [][\A w \in Workers :
          (reqs[w].pc = "t_count" /\ reqs'[w].pc = "t_set") =>
              LET d == reqs'[w].data
                  top == d.top_players
                  n == Len(top)
                  listed == {top[i].user_id : i \in 1..n}
              IN  /\ d.total_players = Cardinality(DOMAIN leaderboard)
                  /\ n = Min(reqs[w].limit, d.total_players)
                  /\ \A i \in 1..n : top[i].rank = i
                  /\ \A i, j \in 1..n : i < j =>
                        /\ top[i].total_score >= top[j].total_score
                        /\ top[i].user_id # top[j].user_id
                  /\ \A q \in DOMAIN leaderboard \ listed :
                        n > 0 /\ leaderboard[q].total_score <= top[n].total_score]_vars

\* the position of the first game_sessions row of u: the row of u in leaderboard
\* was created with it
FirstSession(u) ==
    CHOOSE i \in DOMAIN game_sessions :
        /\ game_sessions[i].user_id = u
        /\ \A j \in 1..(i - 1) : game_sessions[j].user_id # u

\* total descending, equal totals in the order the rows were created
CreationOrdering(lb) ==
    CHOOSE f \in Orderings(lb) :
        \A i, j \in DOMAIN f :
            (i < j /\ lb[f[i]].total_score = lb[f[j]].total_score)
                => FirstSession(f[i]) < FirstSession(f[j])

\* C15 (tie order), as claimed: the listing get_top_players reads from the store
\* is the one listing the store state determines: total descending, players of
\* equal total in creation order.
C15_TieOrder ==
    [][\A w \in Workers :
          (reqs[w].pc = "t_query" /\ reqs'[w].pc = "t_count") =>
              reqs'[w].data.top_players =
                  TopEntries(leaderboard, CreationOrdering(leaderboard), reqs[w].limit)]_vars

\* the step in which dispatch runs _check_rate_limit for client c
DispatchedFor(c) ==
    /\ now' = now
    /\ pending \subseteq pending'
    /\ verdict'.client = c
    /\ verdict'.current_time = now

\* the number of timestamps of seq strictly newer than t - 60 s
NewerCount(seq, t) == Cardinality({i \in DOMAIN seq : seq[i] > t - Window})

\* C16 (admission rule): the check for client c at time now accepts exactly when
\* fewer than the limit of c's recorded timestamps are strictly newer than
\* now - 60 s; when it accepts, now is appended to those timestamps; when it
\* rejects, nothing is recorded: the window is the old one without its expired
\* timestamps.
C16_Admission ==
    [][\A c \in Clients :
          DispatchedFor(c) =>
              LET before == Timestamps(requests, c)
                  after == Timestamps(requests', c)
                  newer == NewerCount(before, now)
                  kept == SelectSeq(before, LAMBDA ts : ts > now - Window)
              IN  /\ verdict'.allowed <=> newer < RequestsPerMinute
                  /\ verdict'.allowed => after = Append(kept, now)
                  /\ ~verdict'.allowed =>
                        /\ after = kept
                        /\ Len(after) = newer
                        /\ admitted' = admitted]_vars

\* a client with a full window has been rejected, and its window holds just the
\* accepted timestamps
C16_Witness ==
    \E c \in Clients :
        /\ verdict = [client |-> c, current_time |-> now, allowed |-> FALSE]
        /\ last_response = [client |-> c, status |-> 429, remaining |-> 0]
        /\ c \in DOMAIN requests
        /\ Len(requests[c]) = RequestsPerMinute
        /\ requests[c] = admitted[c]

\* C17 (rate-limit boundary): a request of a client that has had the limit of
\* requests accepted in the window (now - 60 s, now] is rejected; a request of a
\* client with no accepted request in that window (its most recent one is 60 s
\* old or older) is accepted, whatever was rejected in between.
C17_Boundary ==
    [][\A c \in Clients :
          DispatchedFor(c) =>
              /\ Len(admitted[c]) >= RequestsPerMinute => ~verdict'.allowed
              /\ admitted[c] = <<>> => verdict'.allowed]_vars

\* a client that filled its window at time 0 and was rejected is accepted again
\* exactly 60 s later
C17_Witness ==
    \E c \in Clients :
        /\ now = Window
        /\ verdict = [client |-> c, current_time |-> now, allowed |-> TRUE]
        /\ last_response = [client |-> c, status |-> 429, remaining |-> 0]
        /\ requests[c] = <<now>>

C18_Reads ==
    \A w \in Workers :
        /\ (reqs[w].kind = "idle" /\ reqs'[w].kind = "rank"
                /\ RankCacheGet(w, reqs'[w].user_id, FALSE)) =>
              (reqs'[w].pc = "r_query" /\ ~reqs'[w].hit)
        /\ (reqs[w].kind = "idle" /\ reqs'[w].kind = "top"
                /\ TopCacheGet(w, reqs'[w].limit, FALSE)) =>
              (reqs'[w].pc = "t_query" /\ ~reqs'[w].hit)
        /\ (RankCacheSet(w, FALSE) \/ TopCacheSet(w, FALSE)) =>
              /\ cache' = cache
              /\ reqs'[w].pc = "done" /\ reqs'[w].status = 200
              /\ reqs'[w].data = reqs[w].data

C18_Writes ==
    \A w \in Workers :
        /\ InvalidateUser(w, FALSE) => (cache' = cache /\ reqs'[w].pc = "s_inv_keys")
        /\ (InvalidateTopKeys(w, FALSE) \/ InvalidateTopDelete(w, FALSE)) =>
              (cache' = cache /\ reqs'[w].pc = "s_rank")
        /\ (Invalidating(w) /\ reqs'[w] # reqs[w] /\ reqs'[w].kind = "submit") =>
              /\ reqs'[w].txn = "committed"
              /\ reqs'[w].status = 0
              /\ leaderboard' = leaderboard /\ game_sessions' = game_sessions
        /\ (SubmitRank(w) /\ ~reqs[w].inv_ok) =>
              /\ reqs'[w].status = 200
              /\ reqs'[w].data.new_total_score = reqs[w].row.total_score
              /\ Total(leaderboard', reqs[w].user_id) >= reqs[w].row.total_score

\* C18 (cache degradation): a cache command the backend does not answer changes
\* nothing in the cache and raises nothing: a get is a miss and the handler
\* queries the store, a set leaves the handler answering 200 with the data it
\* computed from the store, and the commands of the invalidation step leave the
\* committed submission on its way to its rank query and its 200 response with
\* the upserted total.
C18_Degradation == [][C18_Reads /\ C18_Writes]_vars

\* a submission whose invalidation the cache did not answer: committed, stored,
\* answered 200 with the new total, and the old listing is still in the cache
C18_Witness ==
    \E w \in Workers :
        /\ reqs[w].kind = "submit" /\ reqs[w].pc = "done" /\ reqs[w].status = 200
        /\ ~reqs[w].inv_ok
        /\ inv_missed
        /\ reqs[w].data.new_total_score = leaderboard[reqs[w].user_id].total_score
        /\ \E n \in Limits : TopKey(n) \in DOMAIN cache

\* the entry under k is not what the store gives now
Stale(k) ==
    /\ k \in DOMAIN cache
    /\ IF k[1] = "rank"
       THEN cache[k] # RankData(leaderboard, k[2])
       ELSE cache[k] \notin FreshTops(k[2])

\* C19 (eventual invalidation): a rank entry or top-N listing that differs from
\* what the store gives is eventually removed or replaced by data that agrees
\* with the store, whether the invalidation step deleted it, the cache did not
\* answer during the invalidation, or a read stored it after the invalidation.
C19_EventualInvalidation == \A k \in CacheKeys : Stale(k) ~> ~Stale(k)

\* a listing older than an accepted write is in the cache although the
\* invalidation step of that write is over: the cache did not answer it
C19_Witness ==
    /\ ~InvalidationPending
    /\ inv_missed
    /\ \E n \in Limits : Stale(TopKey(n))
    /\ \E w \in Workers : reqs[w].kind = "submit" /\ reqs[w].pc = "done" /\ ~reqs[w].inv_ok

\* C20 (idempotent read), as claimed: once every accepted submission has run its
\* invalidation with the cache answering, two get_player_rank calls for the same
\* player made one after the other give the same data, whether a call is served
\* from the cache or computes from the store because the entry has expired or
\* the cache does not answer.
C20_IdempotentRead ==
    (~InvalidationPending /\ ~inv_missed) =>
        \A u \in DOMAIN leaderboard :
            \A a, b \in RankAnswers(u) : a = b

\* the key a read request of w looks up and stores under
KeyOf(r) == IF r.kind = "rank" THEN RankKey(r.user_id) ELSE TopKey(r.limit)

\* every entry was stored with the TTL of its kind and is younger than it
C21_Leases ==
    /\ DOMAIN lease = DOMAIN cache
    /\ \A k \in DOMAIN cache :
          /\ k[1] = "top" => (lease[k].ttl = 30 /\ lease[k].age < 30)
          /\ k[1] = "rank" => (lease[k].ttl = 60 /\ lease[k].age < 60)
          /\ k[1] \in {"top", "rank"}

\* a miss stores what it computed under the key of its own limit or player, as
\* a new entry of age 0, and touches no other key
C21_MissStores ==
    \A w \in Workers :
        (reqs[w].pc \in {"t_set", "r_set"} /\ reqs'[w].pc = "done") =>
            LET k == KeyOf(reqs[w])
            IN  /\ \A x \in (DOMAIN cache \cup DOMAIN cache') \ {k} :
                      /\ x \in DOMAIN cache /\ x \in DOMAIN cache'
                      /\ cache'[x] = cache[x] /\ lease'[x] = lease[x]
                /\ (cache' # cache \/ lease' # lease) =>
                      /\ cache'[k] = reqs[w].data
                      /\ lease'[k].age = 0
                      /\ lease'[k].ttl = IF k[1] = "top" THEN 30 ELSE 60

\* a hit serves the entry under the key of the request, inside its TTL
C21_HitServes ==
    \A w \in Workers :
        (reqs[w].kind = "idle" /\ reqs'[w].hit) =>
            LET k == KeyOf(reqs'[w])
            IN  /\ k \in DOMAIN cache
                /\ reqs'[w].data = cache[k]
                /\ lease[k].age < (IF k[1] = "top" THEN 30 ELSE 60)
                /\ reqs'[w].kind = "rank" => reqs'[w].data.user_id = reqs'[w].user_id
                /\ reqs'[w].kind = "top" =>
                      Len(reqs'[w].data.top_players) <= reqs'[w].limit

\* C21 (cache policy): a getTop(limit) miss stores its result under the key of
\* exactly that limit with TTL 30 s and a getRank(p) miss under the key of exactly
\* that player with TTL 60 s; an entry is served only to a request with the same
\* limit or player, and only while it is younger than its TTL.
C21_CachePolicy == [][C21_Leases' /\ C21_MissStores /\ C21_HitServes]_vars

\* a rank entry that is 30 s old is served to a request for its player
C21_Witness ==
    \E w \in Workers :
        /\ reqs[w].kind = "rank" /\ reqs[w].pc = "done" /\ reqs[w].hit
        /\ RankKey(reqs[w].user_id) \in DOMAIN cache
        /\ lease[RankKey(reqs[w].user_id)].age = 30
        /\ reqs[w].data = cache[RankKey(reqs[w].user_id)]

\* v is a whole response of the handler that stores under k
Complete(k, v) ==
    IF k[1] = "rank"
    THEN /\ DOMAIN v = {"user_id", "rank", "total_score", "session_count", "percentile"}
         /\ v.user_id = k[2]
    ELSE /\ DOMAIN v = {"top_players", "total_players"}
         /\ Len(v.top_players) <= k[2]
         /\ \A i \in DOMAIN v.top_players :
               DOMAIN v.top_players[i] = {"rank", "user_id", "total_score", "session_count"}

\* an entry changes only when a handler stores its response under that very key
C22_OnlyPuts ==
    \A k \in DOMAIN cache' :
        \/ k \in DOMAIN cache /\ cache'[k] = cache[k]
        \/ \E w \in Workers :
              /\ reqs[w].pc \in {"t_set", "r_set"} /\ reqs'[w].pc = "done"
              /\ KeyOf(reqs[w]) = k
              /\ cache'[k] = reqs[w].data

\* a read gets the whole entry of its key or nothing
C22_ReadSees ==
    \A w \in Workers :
        (reqs[w].kind = "idle" /\ reqs'[w].kind \in {"rank", "top"}) =>
            LET k == KeyOf(reqs'[w])
            IN  \/ /\ reqs'[w].hit /\ k \in DOMAIN cache
                   /\ reqs'[w].data = cache[k] /\ Complete(k, reqs'[w].data)
                \/ /\ ~reqs'[w].hit /\ reqs'[w].data = NoData
                   /\ reqs'[w].pc \in {"r_query", "t_query"}

C23_Arrival ==
    \A w \in Workers :
        (reqs[w].kind = "idle" /\ reqs'[w].kind = "submit"
            /\ reqs'[w].user_id \notin Users
            /\ ValidSubmission(reqs'[w].user_id, reqs'[w].score)) =>
            /\ reqs'[w].pc = "done" /\ reqs'[w].status = 404
            /\ reqs'[w].txn = "none"
            /\ UNCHANGED <<leaderboard, game_sessions, accepted, cache, lease>>

\* such a submission never holds a transaction or runs an invalidation, and no
\* row or session exists for its id
C23_NothingCreated ==
    /\ \A w \in Workers :
          (reqs[w].kind = "submit" /\ reqs[w].user_id \notin Users) =>
              /\ reqs[w].pc = "done"
              /\ reqs[w].status =
                    (IF ValidSubmission(reqs[w].user_id, reqs[w].score)
                     THEN 404 ELSE 422)
              /\ reqs[w].txn = "none" /\ reqs[w].keys = {}
    /\ DOMAIN leaderboard \subseteq Users
    /\ \A i \in DOMAIN game_sessions : game_sessions[i].user_id \in Users

\* C23 (unknown player): submit_score for an id with no users row returns 404;
\* the lookup comes before the audit insert and the upsert, so the request
\* creates no leaderboard row and no game session and invalidates no cache entry.
C23_UnknownPlayer == [][C23_Arrival /\ C23_NothingCreated']_vars

\* the 404 has been sent while a listing stored before it is still in the cache
C23_Witness ==
    \E w \in Workers :
        /\ reqs[w].kind = "submit" /\ reqs[w].user_id \notin Users
        /\ reqs[w].pc = "done" /\ reqs[w].status = 404
        /\ \E n \in Limits : TopKey(n) \in DOMAIN cache
        /\ game_sessions = accepted

\* the rank query answers 404 exactly when the player has no row, whether or not
\* the id has a users row, and a 404 leaves the cache as it is
C24_Query ==
    \A w \in Workers :
        (reqs[w].pc = "r_query" /\ reqs'[w].pc \in {"r_set", "done"}
            /\ reqs'[w].status # 500) =>
            /\ (reqs'[w].status = 404) <=> ~HasRow(leaderboard, reqs[w].user_id)
            /\ reqs'[w].status = 404 => (reqs'[w].pc = "done" /\ UNCHANGED <<cache, lease>>)
            /\ reqs'[w].status # 404 =>
                  /\ reqs'[w].pc = "r_set"
                  /\ reqs'[w].data = RankData(leaderboard, reqs[w].user_id)

\* a rank entry exists only for a player with a row and holds a rank response,
\* so once the first submission of u is committed no call for u finds a 404
C24_NeverCached ==
    /\ \A u \in UserIds :
          RankKey(u) \in DOMAIN cache =>
              (HasRow(leaderboard, u) /\ cache[RankKey(u)] # NoData)
    /\ \A w \in Workers :
          (reqs[w].kind = "rank" /\ reqs[w].hit) =>
              (reqs[w].status = 200 /\ HasRow(leaderboard, reqs[w].user_id))

\* C24 (rank of a player without aggregate): get_player_rank returns 404 exactly
\* when the player has no leaderboard row, also for an id that has a users row;
\* the 404 is never stored in the cache, so the first call after the player's
\* first accepted submission finds the row.
C24_NotFound == [][C24_Query /\ C24_NeverCached']_vars

\* a player with a users row and no submission yet is answered 404; the call
\* stored nothing
C24_Witness ==
    \E w \in Workers :
        /\ reqs[w].kind = "rank" /\ reqs[w].pc = "done" /\ reqs[w].status = 404
        /\ reqs[w].user_id \in Users
        /\ ~HasRow(leaderboard, reqs[w].user_id)
        /\ RankKey(reqs[w].user_id) \notin DOMAIN cache

\* the steps a submission may take from a position: the next position of the
\* pipeline, or the failure response; a cancelled or answered request ends
PipelineNext(pc) ==
    CASE pc = "idle"       -> {"s_upsert", "done"}
      [] pc = "s_upsert"   -> {"s_commit", "done"}
      [] pc = "s_commit"   -> {"s_inv_user", "done"}
      [] pc = "s_inv_user" -> {"s_inv_keys"}
      [] pc = "s_inv_keys" -> {"s_inv_del", "s_rank"}
      [] pc = "s_inv_del"  -> {"s_rank"}
      [] pc = "s_rank"     -> {"done"}
      [] OTHER             -> {}

C25_Order ==
    \A w \in Workers :
        (reqs'[w] # reqs[w] /\ reqs'[w].kind = "submit") =>
            /\ reqs'[w].pc \in PipelineNext(reqs[w].pc)
            \* a failure is a 422 or 404 on arrival or a 500, success comes last
            /\ reqs'[w].pc = "done" =>
                  reqs'[w].status = (IF reqs[w].pc = "idle"
                                     THEN (IF ValidSubmission(reqs'[w].user_id,
                                                              reqs'[w].score)
                                           THEN 404 ELSE 422)
                                     ELSE IF reqs[w].pc = "s_rank" /\ reqs'[w].data # NoData
                                     THEN 200 ELSE 500)
            \* the tables change in the commit step only
            /\ (leaderboard' # leaderboard \/ game_sessions' # game_sessions) =>
                  (reqs[w].pc = "s_commit" /\ reqs'[w].pc = "s_inv_user")
            \* the rank of the response is computed in the last step only
            /\ reqs'[w].data # NoData => reqs[w].pc = "s_rank"

\* only a committed submission is in the invalidation step or past it, and cache
\* entries are deleted only by such a submission (or expire)
C25_AfterCommit ==
    /\ \A w \in Workers :
          (reqs[w].kind = "submit" /\ reqs[w].pc \in {"s_inv_user", "s_inv_keys", "s_inv_del", "s_rank"})
              => reqs[w].txn = "committed"
    /\ \A w \in Workers :
          (reqs[w].kind = "submit" /\ reqs[w].pc \in {"s_upsert", "s_commit"})
              => reqs[w].txn = "active"

C25_Deletes ==
    (DOMAIN cache' # DOMAIN cache /\ DOMAIN cache' \subseteq DOMAIN cache) =>
        \/ \E w \in Workers :
              /\ reqs[w].pc \in {"s_inv_user", "s_inv_del"}
              /\ reqs[w].txn = "committed"
              /\ reqs'[w] # reqs[w]
        \/ UNCHANGED reqs

\* C25 (pipeline order): a submission takes its steps only in the order validate
\* player, insert and upsert, commit, invalidate caches, compute rank, respond,
\* and may fail at a step; the caches are invalidated only after the commit,
\* never by a submission that failed before it, and the rank of the response is
\* computed only after the invalidation.
C25_PipelineOrder == [][C25_Order /\ C25_AfterCommit' /\ C25_Deletes]_vars

\* a submission went through every step: it committed, deleted the listing that
\* was cached, and answered 200 with its rank
C25_Witness ==
    \E w \in Workers :
        /\ reqs[w].kind = "submit" /\ reqs[w].pc = "done" /\ reqs[w].status = 200
        /\ reqs[w].txn = "committed" /\ reqs[w].inv_ok
        /\ reqs[w].had # {}
        /\ reqs[w].had \cap DOMAIN cache = {}
        /\ reqs[w].data.current_rank >= 1

\* the step in which call_next has returned for the admitted request p
Returned(p) == p \in pending /\ pending' = pending \ {p}

\* remaining as the claim defines it
RemainingOf(rq, c, t) ==
    LET n == RequestsPerMinute - NewerCount(Timestamps(rq, c), t)
    IN  IF n > 0 THEN n ELSE 0

\* the value of _get_remaining_requests for every client at the present time
C26_Value ==
    \A c \in Clients :
        LET r == GetRemainingRequests(requests, c, now)
        IN  /\ r = RemainingOf(requests, c, now)
            /\ r \in 0..RequestsPerMinute
            /\ c \notin DOMAIN requests => r = RequestsPerMinute

\* C26 (remaining): _get_remaining_requests gives max(0, limit - number of the
\* client's recorded timestamps strictly newer than the given time - 60 s), a
\* value in 0..limit that is the limit for a client with no window; the call in
\* dispatch that fills the header changes no window and creates no entry.
C26_Remaining ==
    [][/\ C26_Value'
       /\ \A p \in pending :
             Returned(p) =>
                 /\ last_response'.client = p.client
                 /\ last_response'.remaining =
                        RemainingOf(requests, p.client, p.current_time)
                 /\ last_response'.remaining \in 0..RequestsPerMinute
                 /\ requests' = requests]_vars

\* the handler of a client returned after a cleanup had dropped the client's
\* window: the header shows the whole limit and the client has no entry
C26_Witness ==
    \E c \in Clients :
        /\ c \notin DOMAIN requests
        /\ last_response = [client |-> c, status |-> 200, remaining |-> RequestsPerMinute]
        /\ last_cleanup = now /\ now > Window

\* C27 (quota reported on rejection): the X-RateLimit-Remaining header of a 429
\* response is the remaining quota of that client at the time of the rejection,
\* computed from the window as it is before and as it is after the check.
C27_RejectedRemaining ==
    [][\A c \in Clients :
          (DispatchedFor(c) /\ ~verdict'.allowed) =>
              /\ last_response'.client = c
              /\ last_response'.status = 429
              /\ last_response'.remaining = GetRemainingRequests(requests', c, now)
              /\ last_response'.remaining = RemainingOf(requests, c, now)]_vars

\* a client is rejected with remaining 0 while the other client still has quota
C27_Witness ==
    \E c, o \in Clients :
        /\ verdict = [client |-> c, current_time |-> now, allowed |-> FALSE]
        /\ last_response = [client |-> c, status |-> 429, remaining |-> 0]
        /\ GetRemainingRequests(requests, c, now) = 0
        /\ o # c /\ GetRemainingRequests(requests, o, now) > 0

\* C28 (garbage collection): the cleanup runs in a dispatch only when more than
\* 60 s have passed since the last run (or since start-up) and records the time
\* of the run; when that dispatch has finished, no client of the map has an
\* empty window, no window holds a timestamp 60 s old or older, and every
\* client of the map had a request accepted within the last 60 s. A dispatch in
\* which the cleanup does not run touches the window of its own client only.
C28_Cleanup ==
    [][\A c \in Clients :
          DispatchedFor(c) =>
              /\ last_cleanup' # last_cleanup =>
                    /\ now - last_cleanup > 60
                    /\ last_cleanup' = now
                    /\ \A ip \in DOMAIN requests' :
                          /\ requests'[ip] # <<>>
                          /\ \A i \in DOMAIN requests'[ip] : requests'[ip][i] > now - 60
                          /\ admitted'[ip] # <<>>
              /\ now - last_cleanup > 60 => last_cleanup' = now
              /\ last_cleanup' = last_cleanup =>
                    \A ip \in Clients \ {c} :
                        /\ ip \in DOMAIN requests' <=> ip \in DOMAIN requests
                        /\ Timestamps(requests', ip) = Timestamps(requests, ip)]_vars

\* the cleanup has just run and dropped the window of a client that had been
\* served before
C28_Witness ==
    \E c \in Clients :
        /\ last_cleanup = now /\ now > 0
        /\ verdict.current_time = now /\ verdict.client # c
        /\ c \notin DOMAIN requests
        /\ last_response = [client |-> c, status |-> 200, remaining |-> RequestsPerMinute - 1]

\* every request that is with a handler was accepted by its own check: its
\* read time is among the timestamps recorded for its client, or was, before
\* it left the window
C29_PendingAdmitted ==
    \A p \in pending :
        /\ p.client \in Clients
        /\ p.current_time <= now
        /\ p.current_time > now - Window =>
              \E i \in DOMAIN admitted[p.client] : admitted[p.client][i] = p.current_time

\* C29 (admission precedes the handler): a request the check rejects is answered
\* 429 in the dispatch step itself and is not handed to a handler, and that step
\* changes nothing of the store, the audit log and the cache; a request is handed
\* to a handler only in the step in which its own check accepted it, and a 200
\* response is sent only for a request that was handed on.
C29_AdmissionFirst ==
    [][/\ \A c \in Clients :
             DispatchedFor(c) =>
                 /\ UNCHANGED svars
                 /\ ~verdict'.allowed =>
                       /\ pending' = pending
                       /\ last_response'.status = 429 /\ last_response'.client = c
                 /\ verdict'.allowed =>
                       /\ pending' = pending \cup {[client |-> c, current_time |-> now]}
                       /\ last_response' = last_response
       /\ pending' \subseteq pending \/ (\E c \in Clients : DispatchedFor(c) /\ verdict'.allowed)
       /\ (last_response' # last_response /\ last_response'.status = 200) =>
             \E p \in pending : Returned(p) /\ p.client = last_response'.client
       /\ C29_PendingAdmitted']_vars

\* a client is rejected while an earlier request of the same client is still
\* with its handler: the rejected one joined no handler
C29_Witness ==
    \E c \in Clients :
        /\ verdict = [client |-> c, current_time |-> now, allowed |-> FALSE]
        /\ last_response.status = 429 /\ last_response.client = c
        /\ \E p \in pending : p.client = c /\ p.current_time < now
        /\ \A p \in pending : p.current_time # now

\* C30 (monotone totals): in every step, whatever request, cache operation or
\* failure it is, every row of the leaderboard stays a row, its total_score is
\* a non-negative integer and is not smaller after the step than before.
C30_MonotoneTotals ==
    [][\/ UNCHANGED leaderboard
       \/ \A u \in DOMAIN leaderboard :
             /\ u \in DOMAIN leaderboard'
             /\ leaderboard'[u].total_score \in Nat
             /\ leaderboard'[u].total_score >= leaderboard[u].total_score
             /\ leaderboard'[u].session_count >= leaderboard[u].session_count]_vars

\* the total of a seeded player has grown by a committed submission and is
\* still there after another request of that player failed with 500
C30_Witness ==
    \E w \in Workers :
        /\ reqs[w].kind = "submit" /\ reqs[w].pc = "done" /\ reqs[w].status = 500
        /\ reqs[w].txn # "committed"
        /\ Len(game_sessions) = 4
        /\ HasRow(leaderboard, reqs[w].user_id)
        /\ leaderboard[reqs[w].user_id].total_score = 2 * MaxScore

\* C31 (frame): a step that changes the leaderboard or the game sessions is the
\* commit of a submission; it creates or changes the row of the submitting
\* player only and appends that submission's session. Every other step (of
\* get_top_players, get_player_rank, the rate limiter and its cleanup, a cache
\* command, an expiry, a failure) leaves both tables as they are.
C31_Frame ==
    [][(leaderboard' # leaderboard \/ game_sessions' # game_sessions) =>
          \E w \in Workers :
              /\ Committing(w) /\ reqs[w].kind = "submit"
              /\ DOMAIN leaderboard' = DOMAIN leaderboard \cup {reqs[w].user_id}
              /\ \A u \in DOMAIN leaderboard \ {reqs[w].user_id} :
                    leaderboard'[u] = leaderboard[u]
              /\ game_sessions' = Append(game_sessions,
                                         Session(reqs[w].user_id, reqs[w].score))]_vars

\* player 1 has submitted on top of the seed and a listing has been computed
\* and cached: the rows of players 2 and 3 are the seeded ones
C31_Witness ==
    /\ Len(game_sessions) = 4
    /\ game_sessions[4].user_id = 1 /\ game_sessions[4].score = MaxScore
    /\ leaderboard[1] = Row(2 * MaxScore, 2)
    /\ leaderboard[2] = Row(MaxScore, 1) /\ leaderboard[3] = Row(0, 1)
    /\ \E n \in Limits : TopKey(n) \in DOMAIN cache

\* C32 (sliding-window bound): at every time, for every client, the accepted
\* requests of that client with timestamps in (now - 60 s, now] are at most the
\* limit, whatever the order of the requests of the clients and of the cleanup
\* runs.
C32_WindowBound ==
    \A c \in Clients :
        /\ Len(admitted[c]) <= RequestsPerMinute
        /\ \A i \in DOMAIN admitted[c] :
              /\ admitted[c][i] > now - Window
              /\ admitted[c][i] <= now

\* a client has the limit of accepted requests in the window, taken at two
\* different times, a cleanup has run since, and the client's next request
\* was rejected
C32_Witness ==
    \E c \in Clients :
        /\ Len(admitted[c]) = RequestsPerMinute
        /\ admitted[c][1] < admitted[c][RequestsPerMinute]
        /\ last_cleanup > 0
        /\ verdict = [client |-> c, current_time |-> now, allowed |-> FALSE]

\* the step in which get_top_players of w runs its listing query
Listing(w) == reqs[w].pc = "t_query" /\ reqs'[w].pc = "t_count"

\* the entries listed before position i that have the total of entry i
TiedBefore(entries, i) ==
    Cardinality({j \in 1..(i - 1) : entries[j].total_score = entries[i].total_score})

\* C33 (positional and competition rank): in the listing get_top_players
\* computes from a store state, the rank of an entry is its position; it equals
\* the rank get_player_rank computes for that player from the same state plus
\* the number of players of the same total listed before it, so the two are
\* equal when no two players have equal totals, and differ for a tied player
\* listed after its peer.
C33_PositionalRank ==
    [][\A w \in Workers :
          Listing(w) =>
              LET entries == reqs'[w].data.top_players
              IN  \A i \in DOMAIN entries :
                      /\ entries[i].rank = i
                      /\ entries[i].rank =
                            RankOver(leaderboard, entries[i].user_id) + TiedBefore(entries, i)
                      /\ NoTies(leaderboard) =>
                            entries[i].rank = RankOver(leaderboard, entries[i].user_id)]_vars

\* two tied players are listed: the second has positional rank 2 while the rank
\* query gives both of them rank 1
C33_Witness ==
    \E w \in Workers :
        /\ reqs[w].kind = "top" /\ reqs[w].pc = "t_count"
        /\ Len(reqs[w].data.top_players) = 2
        /\ reqs[w].data.top_players[2].rank = 2
        /\ leaderboard[reqs[w].data.top_players[1].user_id].total_score
              = leaderboard[reqs[w].data.top_players[2].user_id].total_score
        /\ RankOver(leaderboard, reqs[w].data.top_players[1].user_id) = 1
        /\ RankOver(leaderboard, reqs[w].data.top_players[2].user_id) = 1

\* the case without ties: a listing of two players computed from three different
\* totals
C33_NoTieCase ==
    \E w \in Workers :
        /\ reqs[w].kind = "top" /\ reqs[w].pc = "t_count"
        /\ NoTies(leaderboard) /\ Len(reqs[w].data.top_players) = 2
        /\ \A i \in 1..2 : reqs[w].data.top_players[i].rank
                = RankOver(leaderboard, reqs[w].data.top_players[i].user_id)

\* C34 (window contents): when the check for client c at time now has run, the
\* window of c holds only timestamps strictly newer than now - 60 s, none newer
\* than now, in non-decreasing order.
C34_WindowContents ==
    [][\A c \in Clients :
          DispatchedFor(c) =>
              LET after == Timestamps(requests', c)
              IN  /\ \A i \in DOMAIN after : after[i] > now - 60 /\ after[i] <= now
                  /\ \A i, j \in DOMAIN after : i < j => after[i] <= after[j]]_vars

\* a client served at time 0 is checked again exactly 60 s later: the old
\* timestamp is gone and the window holds the new one alone
C34_Witness ==
    \E c \in Clients :
        /\ now = Window
        /\ verdict = [client |-> c, current_time |-> now, allowed |-> TRUE]
        /\ last_response = [client |-> c, status |-> 200,
                            remaining |-> RequestsPerMinute - 1]
        /\ pending = {[client |-> c, current_time |-> now]}
        /\ requests[c] = <<now>>

\* the limiter that never cleans up decides every request as the limiter does
C35_SameDecision ==
    [][\A c \in Clients :
          DispatchedFor(c) =>
              CheckRateLimit(uncleaned, c, now).allowed = verdict'.allowed]_vars

\* C35 (garbage collection is transparent), as claimed: the limiter that never
\* runs _cleanup_old_entries gives every request the accept/reject decision of
\* the limiter and, when the handler has returned, the remaining value the
\* limiter puts into the header.
C35_GcTransparent ==
    [][/\ \A c \in Clients :
             DispatchedFor(c) =>
                 CheckRateLimit(uncleaned, c, now).allowed = verdict'.allowed
       /\ \A p \in pending :
             Returned(p) =>
                 last_response'.remaining =
                    GetRemainingRequests(uncleaned, p.client, p.current_time)]_vars

\* a request of client c leaves the timestamps of every other client that are
\* still inside the window where they are
C36_OtherWindows ==
    [][\A c \in Clients :
          DispatchedFor(c) =>
              \A d \in Clients \ {c} :
                  Recent(Timestamps(requests', d), now) =
                      Recent(Timestamps(requests, d), now)]_vars

\* the decision for client c is a function of the accepted timestamps of c in
\* the window and of the time, and a request of c does not change the decision
\* another client would get
C36_Decision ==
    [][\A c \in Clients :
          DispatchedFor(c) =>
              /\ verdict'.allowed = (Len(admitted[c]) < RequestsPerMinute)
              /\ \A d \in Clients \ {c} :
                    CheckRateLimit(requests', d, now).allowed =
                        CheckRateLimit(requests, d, now).allowed]_vars

\* a request of client c does not change the remaining value that the running
\* requests of the other clients will be answered with
C36_OtherRemaining ==
    [][\A c \in Clients :
          DispatchedFor(c) =>
              \A p \in pending :
                  p.client # c =>
                      GetRemainingRequests(requests', p.client, p.current_time) =
                          GetRemainingRequests(requests, p.client, p.current_time)]_vars

\* C36 (per-client isolation), as claimed: a request of one client changes
\* neither the window of another client nor the decision or the remaining
\* value another client gets, which depend on that client's own accepted
\* timestamps and the time alone.
C36_Isolation == C36_OtherWindows /\ C36_Decision /\ C36_OtherRemaining

\* the row a submission carries is the one its upsert returned: the submitter's
\* stored total plus the score, and it is not touched afterwards
C37_UpsertValue ==
    [][\A w \in Workers :
          /\ (reqs[w].pc = "s_upsert" /\ reqs'[w].pc = "s_commit") =>
                reqs'[w].row.total_score =
                    Total(leaderboard, reqs[w].user_id) + reqs[w].score
          /\ (reqs[w].pc \in {"s_commit", "s_inv_user", "s_inv_keys", "s_inv_del"}
                 /\ reqs'[w].kind = "submit" /\ reqs'[w].status # 500) =>
                reqs'[w].row = reqs[w].row]_vars

\* C37 (rank of the submit response): the success response of submitScore is
\* built after the commit from the store alone: current_rank is 1 + the number
\* of rows whose total is strictly greater than the submitter's stored total,
\* whatever the cache holds; new_total_score is the total the upsert of this
\* request returned; and while no other submission has changed the submitter's
\* row since, current_rank is 1 + the number of players whose total is strictly
\* greater than new_total_score.
C37_ResponseFromStore ==
    /\ C37_UpsertValue
    /\ [][\A w \in Workers :
            RespondingSubmit(w) =>
                LET u == reqs[w].user_id
                    d == reqs'[w].data
                IN  /\ reqs[w].txn = "committed"
                    /\ HasRow(leaderboard, u)
                    /\ d.current_rank = 1 + GreaterCount(leaderboard, u)
                    /\ d.new_total_score = reqs[w].row.total_score
                    /\ leaderboard[u] = reqs[w].row =>
                          d.current_rank =
                              1 + Cardinality({q \in DOMAIN leaderboard :
                                     leaderboard[q].total_score > d.new_total_score})]_vars

\* a submission has been answered with the rank of the store while the cache
\* holds another rank for the submitter, computed before the submission
C37_Witness ==
    \E w \in Workers :
        LET u == reqs[w].user_id
        IN  /\ reqs[w].kind = "submit" /\ reqs[w].pc = "done" /\ reqs[w].status = 200
            /\ leaderboard[u] = reqs[w].row
            /\ reqs[w].data.new_total_score = MaxScore
            /\ reqs[w].data.current_rank = 1
            /\ GreaterCount(leaderboard, u) = 0
            /\ RankKey(u) \in DOMAIN cache
            /\ cache[RankKey(u)].rank = 3

\* a submission arrives at worker w
SubmissionArrives(w) == reqs[w].kind = "idle" /\ reqs'[w].kind = "submit"

\* C38 (input validation): a submission whose score is below 0 or above
\* 1,000,000, or whose user id is not positive, is answered 422 in the step in
\* which it arrives, with aggregates, audit log and cache unchanged, and does
\* nothing afterwards; a submission inside the range, the scores 0 and 1,000,000
\* included, is never answered 422, and for a known player it goes on to the
\* upsert.
C38_Validation ==
    [][\A w \in Workers :
          /\ SubmissionArrives(w) =>
                LET u == reqs'[w].user_id
                    s == reqs'[w].score
                IN  /\ (s < 0 \/ s > MaxScore \/ u <= 0) =>
                          /\ reqs'[w].pc = "done" /\ reqs'[w].status = 422
                          /\ UNCHANGED <<leaderboard, game_sessions, accepted, cache, lease>>
                    /\ (s >= 0 /\ s <= MaxScore /\ u > 0) => reqs'[w].status # 422
                    /\ (s \in {0, MaxScore} /\ u \in Users) =>
                          reqs'[w].pc = "s_upsert" /\ reqs'[w].txn = "active"
          /\ (reqs[w].status = 422 /\ reqs'[w] # reqs[w]) =>
                /\ reqs'[w] = Idle
                /\ UNCHANGED <<leaderboard, game_sessions, accepted, cache, lease>>]_vars

\* a submission of 1,000,001 has been answered 422 and one of 1,000,000 has been
\* accepted and added to the player's total
C38_Witness ==
    \E w, v \in Workers :
        /\ reqs[w].kind = "submit" /\ reqs[w].status = 422
        /\ reqs[w].score = MaxScore + 1 /\ reqs[w].user_id \in Users
        /\ reqs[v].kind = "submit" /\ reqs[v].pc = "done" /\ reqs[v].status = 200
        /\ reqs[v].score = MaxScore
        /\ reqs[v].data.new_total_score = 2 * MaxScore
        /\ leaderboard[reqs[v].user_id].total_score = 2 * MaxScore

\* a submission of score -1 and one for user id 0 have been answered 422
C38_RejectsLow ==
    \E w, v \in Workers :
        /\ reqs[w].status = 422 /\ reqs[w].score = -1 /\ reqs[w].user_id \in Users
        /\ reqs[v].status = 422 /\ reqs[v].user_id = 0 /\ reqs[v].score = 0

\* the request at worker w is running: it has arrived and has no response yet
Running(w) == reqs[w].kind # "idle" /\ reqs[w].pc # "done"

\* the request at worker w has its response, a success or an error
Answered(w) ==
    /\ reqs[w].pc = "done"
    /\ reqs[w].status \in {200, 404, 422, 500}

\* C39 (termination): under fair scheduling every running submitScore, getTop and
\* getRank request is eventually answered with a success or an error, whatever
\* the cache and the store do at each step and whichever requests run beside it,
\* unless its caller has gone away and the worker is free again.
C39_Termination ==
    \A w \in Workers : Running(w) ~> (Answered(w) \/ reqs[w].kind = "idle")

\* two submissions for one player have both been answered: the second one upserted
\* after the commit of the first, whose cache invalidation had failed
C39_Witness ==
    \E w, v \in Workers :
        /\ w # v
        /\ reqs[w].kind = "submit" /\ reqs[v].kind = "submit"
        /\ reqs[w].user_id = reqs[v].user_id
        /\ Answered(w) /\ reqs[w].status = 200 /\ ~reqs[w].inv_ok
        /\ Answered(v) /\ reqs[v].status = 200
        /\ reqs[v].row.session_count = reqs[w].row.session_count + 1

\* a submission is waiting for the row lock that another submission holds
C39_Waiting ==
    \E w, v \in Workers :
        /\ w # v
        /\ reqs[w].pc = "s_upsert"
        /\ HoldsRowLock(v, reqs[w].user_id)
====
